---- MODULE Spec2Model ----
(***************************************************************************)
(* RetroPlayer (xbmc/cores/RetroPlayer/RetroPlayer.cpp) driving one        *)
(* CGameClient (xbmc/games/GameClient.cpp): the frame-pump thread          *)
(* (CRetroPlayer::Process), the controller threads calling the player's    *)
(* public operations, and the XOR-delta rewind ring of the game client.    *)
(***************************************************************************)
EXTENDS Integers, Sequences, FiniteSets, TLC

\* ------------------------------------------------------------------ bounds

\* Cap on the ring capacity: the code keeps 60 * fps frames (at least 300
\* for an accepted frame rate); the model keeps at most MaxRing of them.
MaxRing == 2

\* The same cap where the ring is only carried along (opening, closing and
\* pausing).
MaxRingClose == 1

\* The same cap where a seek can ask for fewer frames than the ring holds
\* (the shortest seek is one second at 5 fps: 5 frames).
MaxRingSeek == 6

\* The longest record of core calls kept for one load of the library,
\* where the player drives the game client and where a caller does.
MaxCalls == 12
MaxClientCalls == 7

\* The greatest number of retro_run calls counted since a capture.
MaxAge == 4

\* The longest extension list a core reports, in entries.
MaxExts == 2

\* The frame rates of the games whose rewind ceiling is examined go from
\* MinFrameRate up in this many steps of 1/1000 frame per second.
MaxRateSteps == 16

\* The controller threads.  "app" is the application thread, which owns the
\* player's lifecycle (OpenFile / CloseFile); "ui" issues playback commands.
Controllers == {"app", "ui"}

\* Values of one 32-bit word of serialized core state, narrowed.
Words == {0, 1}

\* retro_serialize_size() of the games the core can load (0: no save states).
SerializeSizes == {0, 5}

\* av_info.timing.fps of the games, in 1/10000 frames per second:
\* 4.9 and 60.0988 fps.
FrameRates == {49000, 600988}

\* Arguments of ToFFRW (multiples of normal speed).
SpeedArgs == {0, 1, 2}

\* Arguments of SeekPercentage.
Percents == {0, 50, 100}

\* Arguments of a direct call of CGameClient::RewindFrames.
RewindArgs == {-1, 0, 1, 3}

\* What an uninitialised size_t member may hold.
Garbage == {0, 3}

\* ------------------------------------------------- program constants

PLAYSPEED_PAUSED == 0
PLAYSPEED_NORMAL == 1000
MinFrameRate == 50000
MaxFrameRate == 1000000
RewindSeconds == 60
WordBytes == 4

\* ------------------------------------------------------------- helpers

Min(a, b) == IF a < b THEN a ELSE b
Max(a, b) == IF a > b THEN a ELSE b

\* uint32_t ^ uint32_t, bit by bit.
RECURSIVE Xor(_, _)
Xor(a, b) ==
  IF a = 0 THEN b
  ELSE IF b = 0 THEN a
  ELSE (((a % 2) + (b % 2)) % 2) + (2 * Xor(a \div 2, b \div 2))

\* Number of 32-bit words of a state of `size` bytes.
StateWords(size) == (size + WordBytes - 1) \div WordBytes

\* A double that is not a number: what av_info.timing.fps holds when the
\* core reports NaN, kept apart from the rates of the games.
NaN == -1
IsNaN(x) == x = NaN

\* a < b on doubles: false when either side is not a number.
Less(a, b) == ~IsNaN(a) /\ ~IsNaN(b) /\ a < b

\* Conversion of a double holding x / 10000 to an integer type (truncation).
Trunc(x) == x \div 10000

\* The serialized states of a game whose serialize size is `size`.
CoreStates(size) ==
  IF size = 0 THEN {<<>>} ELSE [1 .. StateWords(size) -> Words]

\* The state after retro_run from state s: the game leaves its state alone
\* or steps it (the words as the digits of a counter, word 1 lowest).
RECURSIVE Step(_, _)
Step(s, i) ==
  IF i > Len(s) THEN s
  ELSE IF s[i] + 1 \in Words THEN [s EXCEPT ![i] = @ + 1]
  ELSE Step([s EXCEPT ![i] = 0], i + 1)

CoreRun(s) == {s, Step(s, 1)}

\* The states a game can be in right after retro_load_game.
BootStates(size) ==
  {s \in CoreStates(size) : \A i \in 2 .. StateWords(size) : s[i] = 0}

\* std::vector::resize(n): keeps the first n elements, zero-fills the rest.
Resize(v, n) ==
  IF n = 0 THEN <<>> ELSE [i \in 1 .. n |-> IF i <= Len(v) THEN v[i] ELSE 0]

VARIABLES
  m_bAbortRequest,   \* CRetroPlayer::m_bAbortRequest
  m_playSpeed,       \* CRetroPlayer::m_playSpeed
  m_pauseEvent,      \* CRetroPlayer::m_pauseEvent is signaled
  m_gameClient,      \* CRetroPlayer::m_gameClient: "NULL" or "client"
  pumps,             \* live threads running CRetroPlayer::Process
  pumpPc,            \* position of the frame pump
  sinksStarted,      \* m_video / m_audio / m_input are started
  gc,                \* the CGameClient object
  m_critSection,     \* owner of CGameClient::m_critSection, or "free"
  stateBuffer,       \* AppendStateDelta's scratch buffer
  coreState,         \* the core's emulation state (what serialize writes)
  coreSize,          \* retro_serialize_size() of the loaded game
  ctl,               \* each controller thread: position and locals
  ringCap,           \* the model's cap on the ring capacity
  gameSizes,         \* retro_serialize_size() of the games that get opened
  faults,            \* whether an OpenFile can fail
  gameRates,         \* av_info.timing.fps of the games that get opened
  watch,             \* the histories this run keeps: the names of the
                     \* core calls abi records, "evicted" for evicted,
                     \* "percent" for what SeekPercentage read, "sinks"
                     \* for sinks
  callCap,           \* the model's cap on the length of abi
  snaps,             \* history: the core states the retained captures saw
  lastCall,          \* history: the core entry point a thread has just called
                     \* while a frame pump is alive
  lin,               \* history: the speed operations in progress and the
                     \* speeds their sequential orders lead to
  pauseSeq,          \* history: position in a run of back-to-back Pause calls
  g_advancedSettings, \* g_advancedSettings.m_bPreferVFS and m_bAllowZip
  info,              \* what the core's retro_get_system_info reports
  m_validExtensions, \* CGameClient::m_validExtensions
  m_bAllowVFS,       \* CGameClient::m_bAllowVFS
  file,              \* the CFileItem given to CGameClient::OpenFile
  resolver,          \* the strategy loop of CGameClient::OpenFile
  hooks,             \* _SetPixelFormat and _SetKeyboardCallback are set
  environment,       \* what the core got through retro_set_environment
  m_pixelFormat,     \* the pixel format m_video was last given
  m_keyboardCallback, \* CRetroPlayer::m_keyboardCallback
  stopRequested,     \* g_application.StopPlaying() has been called
  query,             \* history: the core's last environment query
  audio,             \* history: the core's last audio callback and what
                     \* m_audio got of it
  evicted,           \* history: the ring has dropped a capture of this game
  abi,               \* history: the calls made to the core since its
                     \* library was last loaded, in order
  sinks,             \* history: the sinks the last pump started and the
                     \* sinks it stopped, in order
  frameLog           \* history of the frames: made, for each capture in
                     \* the ring, the retro_run calls since the one it
                     \* followed; idle, the retro_run calls since the
                     \* speed was last set to paused; divisor, the speeds
                     \* the pump has divided by

vars == <<m_bAbortRequest, m_playSpeed, m_pauseEvent, m_gameClient, pumps,
          pumpPc, sinksStarted, gc, m_critSection, stateBuffer, coreState,
          coreSize, ctl, ringCap, gameSizes, faults, gameRates, watch,
          callCap, snaps,
          lastCall, lin, pauseSeq, g_advancedSettings, info,
          m_validExtensions, m_bAllowVFS, file, resolver, hooks,
          environment, m_pixelFormat, m_keyboardCallback, stopRequested,
          query, audio, evicted, abi, sinks, frameLog>>

playerVars == <<m_bAbortRequest, m_playSpeed, m_pauseEvent, m_gameClient>>
pumpVars == <<pumps, pumpPc, sinksStarted>>
clientVars == <<gc, m_critSection, stateBuffer, coreState, coreSize>>
loaderVars == <<g_advancedSettings, info, m_validExtensions, m_bAllowVFS,
                file, resolver>>
callbackVars == <<hooks, environment, m_pixelFormat, m_keyboardCallback,
                  stopRequested, query>>
runVars == <<ringCap, gameSizes, faults, gameRates, watch, callCap>>
sinkVars == <<audio, sinks>>
ringHist == <<evicted>>
abiHist == <<abi>>
frameHist == <<frameLog>>
envVars == <<runVars, loaderVars, callbackVars, sinkVars, ringHist, abiHist,
            frameHist>>
histVars == <<snaps, lastCall>>
speedHist == <<lin, pauseSeq>>
playVars == <<playerVars, pumpVars, clientVars, ctl, runVars, histVars,
              speedHist, sinkVars, ringHist, abiHist, frameHist>>

\* A capture whose content the host never got (a failed retro_serialize).
NoSnap == <<-1>>

\* The history of captures is kept in the runs that watch it.
Kept(h) == IF "snaps" \in watch THEN h ELSE <<>>

\* No frame has run, nothing is in the ring, the pump has divided by nothing.
NoFrames == [made |-> <<>>, idle |-> 0, divisor |-> {}]

\* The greatest count frameLog keeps of the retro_run calls since a
\* capture: greater counts are kept as this one.
Aged(n) == IF n < MaxAge THEN n + 1 ELSE MaxAge

\* std::deque::push_back as if it were push_front.
PushFront(ring, delta) == <<delta>> \o ring

\* m_rewindBuffer.push_back(delta)
PushBack(ring, delta) == Append(ring, delta)

\* The history after retro_run: one more run since each capture.
Ran(log) ==
  [log EXCEPT !.made = IF "made" \in watch
                       THEN [i \in 1 .. Len(@) |-> Aged(@[i])] ELSE @,
              !.idle = IF "idle" \in watch /\ m_playSpeed = PLAYSPEED_PAUSED
                       THEN Aged(@) ELSE @]

\* The history after an assignment to m_playSpeed: no run since.
SpeedSet(log) == [log EXCEPT !.idle = 0]

\* The history after the push_back of AppendStateDelta.
Pushed(log) ==
  [log EXCEPT !.made = IF "made" \in watch THEN PushBack(@, 0) ELSE @]

\* The history after one pop_front, the ring having held `size` captures:
\* the capture dropped is the oldest one, if it was made since the last
\* rewind or open.
Evicted(log, size) ==
  [log EXCEPT !.made = IF Len(@) = size /\ size > 0 THEN Tail(@) ELSE @]

\* The history where RewindFrames begins and where OpenFile clears the
\* ring: no capture made since.
Cleared(log) == [log EXCEPT !.made = <<>>]

\* No core entry point has just been called.
NoCall == <<"none", "none", FALSE>>

\* The first state of the game in a history of captures.
BootOf(h) == IF h = <<>> THEN NoSnap ELSE h[1]

\* No speed operation in progress.
NoOp == <<"none", 0>>

\* The core has made no audio callback.
NoBatch ==
  [data |-> "none", frames |-> 0, speed |-> 0, sent |-> FALSE,
   muted |-> FALSE]

\* No pump has started a sink.
NoSinks == [started |-> <<>>, stopped |-> <<>>]

\* A controller thread between two operations.
Idle ==
  [pc |-> "idle", frames |-> 0, rewound |-> 0, pre |-> 0, k |-> 0,
   want |-> <<>>, flag |-> FALSE, unserialized |-> 0, seek |-> <<>>,
   percent |-> <<>>, opened |-> <<>>]

\* CGameClient::Initialize, called by the constructors.  m_rewindMaxFrames
\* and m_serializeSize are not assigned there; m_serializeSize is never read
\* before OpenFile assigns it.
Initialize(junk) ==
  [dllLoaded |-> FALSE, m_bIsInited |-> FALSE, m_bIsPlaying |-> FALSE,
   m_frameRate |-> 0, m_rewindSupported |-> FALSE,
   m_rewindMaxFrames |-> junk, m_serializeSize |-> 0,
   m_lastSaveState |-> <<>>, m_rewindBuffer |-> <<>>]

\* The player and the game client after construction.
Constructed ==
  /\ m_bAbortRequest = FALSE
  /\ m_playSpeed = PLAYSPEED_NORMAL
  /\ m_pauseEvent = FALSE
  /\ m_gameClient = "NULL"
  /\ pumps = 0
  /\ pumpPc = "none"
  /\ sinksStarted = FALSE
  /\ \E junk \in Garbage : gc = Initialize(junk)
  /\ m_critSection = "free"
  /\ stateBuffer = <<>>
  /\ coreState = <<>>
  /\ coreSize = 0
  /\ ctl = [c \in Controllers |-> Idle]
  /\ snaps = <<>>
  /\ lastCall = NoCall
  /\ lin = [ops |-> [c \in Controllers |-> NoOp],
            cfg |-> {<<PLAYSPEED_NORMAL, {}>>}]
  /\ pauseSeq = 0
  /\ audio = NoBatch
  /\ evicted = FALSE
  /\ abi = <<>>
  /\ sinks = NoSinks
  /\ frameLog = NoFrames

\* ------------------------------------------------------- core entry points

\* Thread `who` calls core entry point `fn`: recorded, with whether `who`
\* holds m_critSection, while a frame pump is alive.
CoreCall(who, fn) ==
  lastCall' = IF pumps > 0 THEN <<who, fn, m_critSection = who>> ELSE NoCall

\* retro_serialize(buf, size) succeeds only for the size the game reports.
CanSerialize(size) == coreSize > 0 /\ size = coreSize

\* The calls of `calls` from the last load of the library on.
SinceLoad(calls) ==
  LET loads == {i \in 1 .. Len(calls) : calls[i] = "Load"}
  IN  IF loads = {} THEN calls
      ELSE SubSeq(calls, CHOOSE i \in loads : \A j \in loads : j <= i,
                  Len(calls))

\* What becomes of `calls` made through m_dll on client g: a call through
\* a library that is not loaded goes through a null pointer and ends the
\* process.
Through(g, calls) ==
  IF g.dllLoaded \/ calls = <<>> THEN calls ELSE <<"crash">>

\* A call through a library that was not loaded has ended the process.
Crashed == abi # <<>> /\ abi[Len(abi)] = "crash"

\* The handler makes `calls`: they are added to the record.
Logged(calls) ==
  LET kept == SinceLoad(abi \o SelectSeq(calls, LAMBDA x : x \in watch))
  IN  /\ Len(kept) <= callCap
      /\ abi' = kept

\* --------------------------------------------------------- CGameClient

\* CGameClient::DeInit
DeInit(g) ==
  IF g.dllLoaded
  THEN [g EXCEPT !.m_bIsPlaying = FALSE, !.m_bIsInited = FALSE,
                 !.dllLoaded = FALSE]
  ELSE g

\* CGameClient::Init: the client after the call; it returned true iff the
\* library is loaded afterwards.
GameClientInit(g, loadOk, apiOk) ==
  IF loadOk /\ apiOk THEN [DeInit(g) EXCEPT !.dllLoaded = TRUE] ELSE DeInit(g)

\* The calls of DeInit on client g.
DeInitCalls(g) ==
  IF g.dllLoaded THEN <<"unload_game", "deinit", "Unload">> ELSE <<>>

\* The calls of Init on client g: DeInit, Load, and DeInit again when the
\* API versions differ (retro_get_system_info and retro_api_version are
\* not recorded).
GameClientInitCalls(g, loadOk, apiOk) ==
  DeInitCalls(g) \o
    (IF ~loadOk THEN <<>>
     ELSE IF apiOk THEN <<"Load">>
     ELSE <<"Load", "unload_game", "deinit", "Unload">>)

\* The setters at the end of OpenFile.
Setters ==
  <<"set_video_refresh", "set_audio_sample", "set_audio_sample_batch",
    "set_input_state", "set_input_poll">>

\* OpenFileCalls as if retro_init came before retro_set_environment.
OpenFileCallsInitFirst(g, loaded, size) ==
  (IF g.m_bIsInited THEN <<>> ELSE <<"init", "set_environment">>) \o
  (IF ~loaded THEN <<>>
   ELSE <<"load_game">> \o (IF size > 0 THEN <<"serialize">> ELSE <<>>)
        \o Setters)

\* The calls of OpenFile on a client g whose library is loaded (load
\* attempts that fail, retro_get_system_av_info, retro_serialize_size,
\* retro_get_region and SetDevice are not recorded).
OpenFileCalls(g, loaded, size) ==
  (IF g.m_bIsInited THEN <<>> ELSE <<"set_environment", "init">>) \o
  (IF ~loaded THEN <<>>
   ELSE <<"load_game">> \o (IF size > 0 THEN <<"serialize">> ELSE <<>>)
        \o Setters)

\* RewindMaxFramesOf as if OpenFile left the ceiling of the ring at 0.
RewindMaxFramesNone(fps) == 0

\* m_rewindMaxFrames = 60.0 * m_frameRate, as a size_t, capped by the model.
RewindMaxFramesOf(fps) == Min(Trunc(RewindSeconds * fps), ringCap)

\* The delta AppendStateDelta appends: the (index, xor) pairs of the words
\* in which the new state differs from m_lastSaveState.
RECURSIVE DeltaFrom(_, _, _)
DeltaFrom(last, buf, i) ==
  IF i > Len(buf) THEN <<>>
  ELSE LET xor_val == Xor(last[i], buf[i])
       IN  (IF xor_val # 0 THEN <<(<<i, xor_val>>)>> ELSE <<>>)
           \o DeltaFrom(last, buf, i + 1)

\* ApplyDelta with = in the place of ^=.
RECURSIVE ApplyDeltaAssign(_, _)
ApplyDeltaAssign(last, delta) ==
  IF delta = <<>> THEN last
  ELSE ApplyDeltaAssign([last EXCEPT ![delta[1][1]] = delta[1][2]],
                        Tail(delta))

\* The loop of RewindFrames over one delta: last[first] ^= second.
RECURSIVE ApplyDelta(_, _)
ApplyDelta(last, delta) ==
  IF delta = <<>> THEN last
  ELSE ApplyDelta([last EXCEPT ![delta[1][1]] = Xor(@, delta[1][2])],
                  Tail(delta))

Front(s) == SubSeq(s, 1, Len(s) - 1)

\* CGameClient::OpenFile after Init succeeded: the client after the call.
\* loaded: some strategy's presentation was accepted by retro_load_game.
GameClientOpenFile(g, loaded, fps, size, serOk, boot) ==
  LET inited == [g EXCEPT !.m_bIsInited = TRUE]
      playing == [inited EXCEPT !.m_bIsPlaying = TRUE, !.m_frameRate = fps,
                                !.m_rewindBuffer = <<>>]
      resized == Resize(g.m_lastSaveState, StateWords(size))
  IN  IF ~loaded THEN inited
      ELSE IF size = 0 THEN playing
      ELSE [playing EXCEPT
              !.m_rewindSupported = TRUE,
              !.m_rewindMaxFrames = RewindMaxFramesOf(fps),
              !.m_serializeSize = size,
              !.m_lastSaveState = IF serOk THEN boot ELSE resized]

\* RewindFramesAvail: m_rewindBuffer.size(), read without the lock.
RewindFramesAvail == Len(gc.m_rewindBuffer)

\* RewindFramesAvailMax
RewindFramesAvailMax == gc.m_rewindMaxFrames

\* CanLock as if m_critSection excluded nobody.
CanLockUnguarded(t) == TRUE

\* CSingleLock lock(m_critSection) can be taken.
CanLock(t) == m_critSection = "free"

\* ------------------------------------------- the frame pump (Process)

\* IsRunning as if the thread had never been created.
IsRunningNever == FALSE

\* CThread::IsRunning
IsRunning == pumps > 0

\* Whether the sample rate of a game lies in [1, 384000]; only a run that
\* keeps the history of the sinks tells the games apart.
SampleRatesValid == IF "sinks" \in watch THEN BOOLEAN ELSE {TRUE}

\* The sinks Process stops after the loop, in order: m_video.StopThread(),
\* m_audio.StopThread(), m_input.Finish().
SinksStopped == <<"video", "audio", "input">>

\* The sinks Process starts before the loop, in order: m_audio.GoForth
\* unless the sample rate is out of range, m_video.GoForth, m_input.Begin.
SinksStarted(audible) ==
  (IF audible THEN <<"audio">> ELSE <<>>) \o <<"video", "input">>

\* Process up to the loop: the sinks are started.
PumpStart ==
  /\ pumpPc = "start"
  /\ sinksStarted' = TRUE
  /\ \E audible \in SampleRatesValid :
       sinks' = IF "sinks" \in watch
                THEN [started |-> SinksStarted(audible), stopped |-> <<>>]
                ELSE sinks
  /\ pumpPc' = "loop"
  /\ UNCHANGED <<playerVars, pumps, clientVars, ctl, runVars, loaderVars,
                 callbackVars, audio, ringHist, frameHist, abiHist, histVars>>
  /\ UNCHANGED speedHist

\* while (!m_bAbortRequest)
PumpLoop ==
  /\ pumpPc = "loop"
  /\ pumpPc' = IF m_bAbortRequest THEN "exit" ELSE "speed"
  /\ UNCHANGED <<playerVars, pumps, sinksStarted, clientVars, ctl, envVars,
                 histVars>>
  /\ UNCHANGED speedHist

\* if (m_playSpeed <= PLAYSPEED_PAUSED): pause the sinks and go to wait.
PumpSpeed ==
  /\ pumpPc = "speed"
  /\ pumpPc' = IF m_playSpeed <= PLAYSPEED_PAUSED THEN "wait" ELSE "frame"
  /\ UNCHANGED <<playerVars, pumps, sinksStarted, clientVars, ctl, envVars,
                 histVars>>
  /\ UNCHANGED speedHist

\* WaitResumes as if the pump went on to RunFrame once woken.
WaitResumesFrame == "frame"

\* Where the pump goes on after m_pauseEvent.Wait(): `continue`, that is
\* the loop test and the speed test again.
WaitResumes == "loop"

\* m_pauseEvent.Wait() returns (the event resets itself), then continue.
PumpWait ==
  /\ pumpPc = "wait"
  /\ m_pauseEvent
  /\ m_pauseEvent' = FALSE
  /\ pumpPc' = WaitResumes
  /\ UNCHANGED <<m_bAbortRequest, m_playSpeed, m_gameClient, pumps,
                 sinksStarted, clientVars, ctl, envVars, histVars>>
  /\ UNCHANGED speedHist

\* RunFrame: take the lock; if (m_bIsPlaying) retro_run().
RunFrame ==
  /\ pumpPc = "frame"
  /\ CanLock("pump")
  /\ m_critSection' = "pump"
  /\ IF gc.m_bIsPlaying
     THEN /\ coreState' \in CoreRun(coreState)
          /\ lastCall' = <<"pump", "run", TRUE>>
          /\ frameLog' = Ran(frameLog)
     ELSE /\ lastCall' = NoCall
          /\ UNCHANGED <<coreState, frameLog>>
  /\ Logged(IF gc.m_bIsPlaying THEN Through(gc, <<"run">>) ELSE <<>>)
  /\ pumpPc' = "append"
  /\ UNCHANGED <<playerVars, pumps, sinksStarted, gc, stateBuffer, coreSize,
                 ctl, runVars, loaderVars, callbackVars, sinkVars, ringHist,
                 snaps>>
  /\ UNCHANGED speedHist

\* AppendSkipped as if the pump went on to m_lastSaveState = stateBuffer
\* with what the core had written.
AppendSkippedStored(g, written) == [g EXCEPT !.m_lastSaveState = written]

\* The game client after AppendStateDelta returns at "if (!success)", the
\* core having been asked to write `written` into the local stateBuffer.
AppendSkipped(g, written) == g

\* AppendStateDelta up to the check of retro_serialize's result.
AppendStateDelta ==
  /\ pumpPc = "append"
  /\ IF ~gc.m_rewindSupported
     THEN /\ pumpPc' = "unlock"
          /\ lastCall' = NoCall
          /\ UNCHANGED <<gc, stateBuffer, snaps>>
     ELSE /\ CoreCall("pump", "serialize")
          /\ \E success \in BOOLEAN :
               /\ success => CanSerialize(gc.m_serializeSize)
               /\ IF success
                  THEN /\ stateBuffer' = coreState
                       /\ snaps' = Kept(Append(snaps, coreState))
                       /\ pumpPc' = "push"
                       /\ UNCHANGED gc
                  ELSE /\ gc' = AppendSkipped(gc, coreState)
                       /\ pumpPc' = "unlock"
                       /\ UNCHANGED <<stateBuffer, snaps>>
  /\ Logged(IF gc.m_rewindSupported THEN Through(gc, <<"serialize">>)
            ELSE <<>>)
  /\ UNCHANGED <<playerVars, pumps, sinksStarted, m_critSection,
                 coreState, coreSize, ctl, runVars, loaderVars, callbackVars,
                 sinkVars, ringHist, frameHist>>
  /\ UNCHANGED speedHist

\* m_rewindBuffer.push_back(...) and the loop filling the delta.
AppendPush ==
  /\ pumpPc = "push"
  /\ gc' = [gc EXCEPT !.m_rewindBuffer =
                 PushBack(@, DeltaFrom(gc.m_lastSaveState, stateBuffer, 1))]
  /\ frameLog' = Pushed(frameLog)
  /\ pumpPc' = "overwrite"
  /\ lastCall' = NoCall
  /\ UNCHANGED <<playerVars, pumps, sinksStarted, m_critSection, stateBuffer,
                 coreState, coreSize, ctl, runVars, loaderVars, callbackVars, sinkVars, ringHist,
                 abiHist, snaps>>
  /\ UNCHANGED speedHist

\* m_lastSaveState = stateBuffer
AppendOverwrite ==
  /\ pumpPc = "overwrite"
  /\ gc' = [gc EXCEPT !.m_lastSaveState = stateBuffer]
  /\ pumpPc' = "evict"
  /\ UNCHANGED <<playerVars, pumps, sinksStarted, m_critSection, stateBuffer,
                 coreState, coreSize, ctl, envVars, histVars>>
  /\ UNCHANGED speedHist

\* while (m_rewindBuffer.size() > m_rewindMaxFrames) pop_front();
AppendEvict ==
  /\ pumpPc = "evict"
  /\ IF Len(gc.m_rewindBuffer) > gc.m_rewindMaxFrames
     THEN /\ gc' = [gc EXCEPT !.m_rewindBuffer = Tail(@)]
          /\ snaps' = Kept(Tail(snaps))
          /\ evicted' = ("evicted" \in watch)
          /\ frameLog' = Evicted(frameLog, Len(gc.m_rewindBuffer))
          /\ pumpPc' = "evict"
     ELSE /\ pumpPc' = "unlock"
          /\ UNCHANGED <<gc, snaps, evicted, frameLog>>
  /\ UNCHANGED <<playerVars, pumps, sinksStarted, m_critSection, stateBuffer,
                 coreState, coreSize, ctl, runVars, loaderVars, callbackVars,
                 sinkVars, abiHist, lastCall>>
  /\ UNCHANGED speedHist

\* RunFrame returns (the lock is released); Tickle, WaitAbsoluteClock.
\* The read of m_playSpeed that follows changes nothing but nextpts: it is
\* a step of its own in the runs that watch "divisor".
RunFrameReturn ==
  /\ pumpPc = "unlock"
  /\ m_critSection' = "free"
  /\ stateBuffer' = <<>>
  /\ pumpPc' = IF "divisor" \in watch THEN "advance" ELSE "loop"
  /\ lastCall' = NoCall
  /\ UNCHANGED <<playerVars, pumps, sinksStarted, gc, coreState, coreSize,
                 ctl, envVars, snaps>>
  /\ UNCHANGED speedHist

\* nextpts += frametime * PLAYSPEED_NORMAL / m_playSpeed
PumpAdvance ==
  /\ pumpPc = "advance"
  /\ frameLog' = [frameLog EXCEPT !.divisor = {m_playSpeed}]
  /\ pumpPc' = "loop"
  /\ UNCHANGED <<playerVars, pumps, sinksStarted, clientVars, ctl,
                 runVars, loaderVars, callbackVars, sinkVars,
                 ringHist, abiHist, histVars>>
  /\ UNCHANGED speedHist

\* After the loop: the sinks are stopped and the thread ends.
PumpExit ==
  /\ pumpPc = "exit"
  /\ sinksStarted' = FALSE
  /\ sinks' = IF "sinks" \in watch
              THEN [sinks EXCEPT !.stopped = SinksStopped]
              ELSE sinks
  /\ pumps' = pumps - 1
  /\ pumpPc' = "none"
  /\ UNCHANGED <<playerVars, clientVars, ctl, runVars, loaderVars,
                 callbackVars, audio, ringHist, frameHist, abiHist, histVars>>
  /\ UNCHANGED speedHist

Pump ==
  \/ PumpStart
  \/ PumpLoop
  \/ PumpSpeed
  \/ PumpWait
  \/ RunFrame
  \/ AppendStateDelta
  \/ AppendPush
  \/ AppendOverwrite
  \/ AppendEvict
  \/ RunFrameReturn
  \/ PumpExit

\* ------------------------------------------ CGameClient::RewindFrames

\* The state the core had `j` captures ago.
SnapBack(j) == IF j < Len(snaps) THEN snaps[Len(snaps) - j] ELSE NoSnap

\* CSingleLock lock(m_critSection); int frames_rewound = 0;
RewindLock(c) ==
  /\ ctl[c].pc = "rewind"
  /\ CanLock(c)
  /\ m_critSection' = c
  /\ ctl' = [ctl EXCEPT ![c] =
       [@ EXCEPT !.pc = "rw_loop", !.rewound = 0, !.k = ctl[c].frames,
                 !.pre = Len(gc.m_rewindBuffer),
                 !.want = SnapBack(Min(Max(ctl[c].frames, 0),
                                       Len(gc.m_rewindBuffer)))]]
  /\ frameLog' = Cleared(frameLog)
  /\ UNCHANGED <<playerVars, pumpVars, gc, stateBuffer, coreState, coreSize,
                 runVars, loaderVars, callbackVars, sinkVars, ringHist,
                 abiHist, histVars>>
  /\ UNCHANGED speedHist

\* RewindCount as if the loop ran until the ring was empty.
RewindCountWhole(frames, size) == size

\* The number of turns of while (frames > 0 && m_rewindBuffer.size() > 0).
RewindCount(frames, size) == IF frames > 0 THEN Min(frames, size) ELSE 0

\* m_lastSaveState after the `n` newest deltas of `ring` are XORed into it,
\* newest first.
RECURSIVE PopDeltas(_, _, _)
PopDeltas(last, ring, n) ==
  IF n = 0 THEN last
  ELSE PopDeltas(ApplyDelta(last, ring[Len(ring)]), Front(ring), n - 1)

\* The loop of RewindFrames, run under the lock.
RewindLoop(c) ==
  /\ ctl[c].pc = "rw_loop"
  /\ LET n == RewindCount(ctl[c].frames, Len(gc.m_rewindBuffer))
     IN  /\ gc' = [gc EXCEPT
              !.m_lastSaveState = PopDeltas(@, gc.m_rewindBuffer, n),
              !.m_rewindBuffer = SubSeq(@, 1, Len(@) - n)]
         /\ snaps' = Kept(SubSeq(snaps, 1, Len(snaps) - n))
         /\ ctl' = [ctl EXCEPT ![c] =
              [@ EXCEPT !.pc = "rw_unser", !.frames = @ - n, !.rewound = n]]
  /\ UNCHANGED <<playerVars, pumpVars, m_critSection, stateBuffer, coreState,
                 coreSize, envVars, lastCall>>
  /\ UNCHANGED speedHist

\* if (frames_rewound) retro_unserialize(m_lastSaveState)
RewindUnserialize(c) ==
  /\ ctl[c].pc = "rw_unser"
  /\ IF ctl[c].rewound > 0
     THEN /\ CoreCall(c, "unserialize")
          /\ coreState' = IF CanSerialize(gc.m_serializeSize)
                          THEN gc.m_lastSaveState ELSE coreState
     ELSE UNCHANGED <<coreState, lastCall>>
  /\ ctl' = [ctl EXCEPT ![c] =
       [Idle EXCEPT !.pc = "rw_ret", !.rewound = ctl[c].rewound,
                    !.want = ctl[c].want, !.pre = ctl[c].pre, !.k = ctl[c].k,
                    !.seek = ctl[c].seek, !.percent = ctl[c].percent,
                    !.unserialized = IF ctl[c].rewound > 0 THEN 1 ELSE 0]]
  /\ Logged(IF ctl[c].rewound > 0 THEN Through(gc, <<"unserialize">>)
            ELSE <<>>)
  /\ UNCHANGED <<playerVars, pumpVars, gc, m_critSection, stateBuffer,
                 coreSize, runVars, loaderVars, callbackVars, sinkVars,
                 ringHist, frameHist, snaps>>
  /\ UNCHANGED speedHist

\* return frames_rewound; the lock is released.
RewindReturn(c) ==
  /\ ctl[c].pc = "rw_ret"
  /\ m_critSection' = "free"
  /\ ctl' = [ctl EXCEPT ![c] = Idle]
  /\ lastCall' = NoCall
  /\ UNCHANGED <<playerVars, pumpVars, gc, stateBuffer, coreState, coreSize,
                 envVars, snaps>>
  /\ UNCHANGED speedHist

\* A caller of the public CGameClient::RewindFrames(int frames), up to the
\* call.
RewindFramesCall(c) ==
  /\ ctl[c].pc = "idle"
  /\ m_gameClient # "NULL"
  /\ \E frames \in RewindArgs :
       ctl' = [ctl EXCEPT ![c] = [@ EXCEPT !.pc = "rewind", !.frames = frames]]
  /\ UNCHANGED <<playerVars, pumpVars, clientVars, envVars, histVars>>
  /\ UNCHANGED speedHist

\* ------------------------------------------- CRetroPlayer: seek and time

\* SeekFrames as if every step were the small one.
SeekFramesSmall(bLargeStep, fps) == Trunc(1 * fps)

\* int seek_seconds = bLargeStep ? 10 : 1; the argument of RewindFrames is
\* seek_seconds * GetFrameRate(), converted to int.
SeekFrames(bLargeStep, fps) ==
  LET seek_seconds == IF bLargeStep THEN 10 ELSE 1
  IN  Trunc(seek_seconds * fps)

\* Seek(bPlus, bLargeStep) up to the call of RewindFrames.
Seek(c) ==
  /\ ctl[c].pc = "idle"
  /\ m_gameClient # "NULL"
  /\ \E bPlus \in BOOLEAN, bLargeStep \in BOOLEAN :
       IF bPlus
       THEN UNCHANGED ctl
       ELSE ctl' = [ctl EXCEPT ![c] =
              [@ EXCEPT !.pc = "rewind",
                        !.frames = SeekFrames(bLargeStep, gc.m_frameRate),
                        !.seek = <<bLargeStep, gc.m_frameRate>>]]
  /\ UNCHANGED <<playerVars, pumpVars, clientVars, envVars, histVars>>
  /\ UNCHANGED speedHist

\* SeekPercentage(fPercent) up to the call of RewindFrames.
SeekPercentage(c) ==
  /\ ctl[c].pc = "idle"
  /\ m_gameClient # "NULL"
  /\ \E fPercent \in Percents :
       LET max_buffer == RewindFramesAvailMax
           current_buffer == RewindFramesAvail
           target_buffer == (max_buffer * fPercent) \div 100
           rewind_frames == current_buffer - target_buffer
       IN  IF max_buffer # 0 /\ rewind_frames > 0
           THEN ctl' = [ctl EXCEPT ![c] =
                  [@ EXCEPT !.pc = "rewind", !.frames = rewind_frames,
                            !.percent =
                               IF "percent" \in watch
                               THEN <<current_buffer, target_buffer>>
                               ELSE <<>>]]
           ELSE UNCHANGED ctl
  /\ UNCHANGED <<playerVars, pumpVars, clientVars, envVars, histVars>>
  /\ UNCHANGED speedHist

\* GetTime: 1000 * RewindFramesAvail() / fps, in milliseconds.  It reads
\* the ring without the lock and changes nothing; a controller thread may
\* call it whenever the player holds a game client.
GetTime == (1000 * RewindFramesAvail * 10000) \div gc.m_frameRate

\* GetTotalTime: 1000 * RewindFramesAvailMax() / fps, in milliseconds.
GetTotalTime == (1000 * RewindFramesAvailMax * 10000) \div gc.m_frameRate

\* --------------------------------------- CRetroPlayer: Pause and ToFFRW

\* PauseSpeed with the two branches of Pause assigning the same speed.
PauseSpeedStuck(wasPaused) == PLAYSPEED_PAUSED

\* Pause: the speed assigned in the branch taken.
PauseSpeed(wasPaused) ==
  IF wasPaused THEN PLAYSPEED_NORMAL ELSE PLAYSPEED_PAUSED

\* The speed a speed operation run alone leaves, from speed s.
SeqSpeed(op, s) ==
  IF op[1] = "pause" THEN PauseSpeed(s = PLAYSPEED_PAUSED)
  ELSE op[2] * PLAYSPEED_NORMAL

\* History: every <<speed, applied>> reached from a member of cfg by running
\* alone, one after the other, operations in progress not yet in `applied`.
LinExpand(ops, cfg) ==
  cfg \cup
  { <<SeqSpeed(ops[q[2]], q[1][1]), q[1][2] \cup {q[2]}>> :
      q \in { r \in cfg \X Controllers :
                 ops[r[2]] # NoOp /\ r[2] \notin r[1][2] } }

RECURSIVE LinClosure(_, _, _)
LinClosure(ops, cfg, n) ==
  IF n = 0 THEN cfg ELSE LinClosure(ops, LinExpand(ops, cfg), n - 1)

\* No speed operation is in progress.
Quiet == \A c \in Controllers : lin.ops[c] = NoOp

\* History: controller c begins speed operation op.  With no operation in
\* progress the sequential orders start over from the speed of the player.
LinInvoke(c, op) ==
  LET ops == [lin.ops EXCEPT ![c] = op]
      base == IF Quiet THEN {<<m_playSpeed, {}>>} ELSE lin.cfg
  IN  lin' = [ops |-> ops,
              cfg |-> LinClosure(ops, base, Cardinality(Controllers))]

\* History: the speed operation of controller c returns.
LinReturn(c) ==
  lin' = [ops |-> [lin.ops EXCEPT ![c] = NoOp],
          cfg |-> { <<x[1], x[2] \ {c}>> :
                      x \in { y \in lin.cfg : c \in y[2] } }]

\* History: a Pause call returns; it counts when it belongs to the run.
PauseSeqReturn == pauseSeq' = IF pauseSeq % 2 = 1 THEN pauseSeq + 1 ELSE 0

\* Pause: the test m_playSpeed == PLAYSPEED_PAUSED.
PauseTest(c) ==
  /\ ctl[c].pc = "idle"
  /\ ctl' = [ctl EXCEPT ![c] =
       [@ EXCEPT !.pc = "pause_write",
                 !.flag = (m_playSpeed = PLAYSPEED_PAUSED)]]
  /\ LinInvoke(c, <<"pause", 0>>)
  /\ pauseSeq' = IF Quiet /\ ( \/ pauseSeq = 0 /\ m_playSpeed = PLAYSPEED_NORMAL
                              \/ pauseSeq \in {2, 4} )
                 THEN pauseSeq + 1 ELSE 0
  /\ UNCHANGED <<playerVars, pumpVars, clientVars, envVars, histVars>>

\* Pause: the assignment to m_playSpeed in the branch taken.
PauseWrite(c) ==
  /\ ctl[c].pc = "pause_write"
  /\ m_playSpeed' = PauseSpeed(ctl[c].flag)
  /\ IF ctl[c].flag
     THEN /\ ctl' = [ctl EXCEPT ![c] = [Idle EXCEPT !.pc = "event_set"]]
          /\ UNCHANGED speedHist
     ELSE /\ ctl' = [ctl EXCEPT ![c] = Idle]
          /\ LinReturn(c)
          /\ PauseSeqReturn
  /\ frameLog' = SpeedSet(frameLog)
  /\ UNCHANGED <<m_bAbortRequest, m_pauseEvent, m_gameClient, pumpVars,
                 clientVars, runVars, loaderVars, callbackVars, sinkVars,
                 ringHist, abiHist, histVars>>

\* The arguments ToFFRW is called with: a run that watches "reverse" also
\* passes a negative speed.
SpeedInputs == IF "reverse" \in watch THEN SpeedArgs \cup {-1} ELSE SpeedArgs

\* ToFFRW(iSpeed): bool unpause = ...
ToFFRWTest(c) ==
  /\ ctl[c].pc = "idle"
  /\ \E iSpeed \in SpeedInputs :
       /\ ctl' = [ctl EXCEPT ![c] =
         [@ EXCEPT !.pc = "ffrw_write", !.frames = iSpeed,
                   !.flag = (m_playSpeed = PLAYSPEED_PAUSED
                             /\ iSpeed # PLAYSPEED_PAUSED)]]
       /\ LinInvoke(c, <<"ffrw", iSpeed>>)
  /\ pauseSeq' = 0
  /\ UNCHANGED <<playerVars, pumpVars, clientVars, envVars, histVars>>

\* ToFFRW: m_playSpeed = iSpeed * PLAYSPEED_NORMAL
ToFFRWWrite(c) ==
  /\ ctl[c].pc = "ffrw_write"
  /\ m_playSpeed' = ctl[c].frames * PLAYSPEED_NORMAL
  /\ ctl' = [ctl EXCEPT ![c] =
       IF ctl[c].flag THEN [Idle EXCEPT !.pc = "event_set"] ELSE Idle]
  /\ IF ctl[c].flag THEN UNCHANGED lin ELSE LinReturn(c)
  /\ frameLog' = SpeedSet(frameLog)
  /\ UNCHANGED <<m_bAbortRequest, m_pauseEvent, m_gameClient, pumpVars,
                 clientVars, runVars, loaderVars, callbackVars, sinkVars,
                 ringHist, abiHist, histVars, pauseSeq>>

\* m_pauseEvent.Set() at the end of Pause and of ToFFRW.
PauseEventSet(c) ==
  /\ ctl[c].pc = "event_set"
  /\ m_pauseEvent' = TRUE
  /\ ctl' = [ctl EXCEPT ![c] = Idle]
  /\ LinReturn(c)
  /\ PauseSeqReturn
  /\ UNCHANGED <<m_bAbortRequest, m_playSpeed, m_gameClient, pumpVars,
                 clientVars, envVars, histVars>>

\* ------------------------------------ CRetroPlayer: OpenFile, CloseFile

\* 5.0 <= fps <= 100.0, the test of OpenFile negated.
FrameRateValid(fps) ==
  ~(Less(fps, MinFrameRate) \/ Less(MaxFrameRate, fps))

\* CloseFile with the call SetPlaySpeed(DVD_PLAYSPEED_NORMAL) in force.
CloseFileResetSpeed(c) ==
  /\ c = "app"
  /\ ctl[c].pc = "idle"
  /\ m_bAbortRequest' = TRUE
  /\ m_playSpeed' = PLAYSPEED_NORMAL
  /\ ctl' = [ctl EXCEPT ![c] =
       [@ EXCEPT !.pc = "close_set", !.flag = FALSE, !.pre = pumps]]
  /\ UNCHANGED <<m_pauseEvent, m_gameClient, pumpVars,
                 clientVars, envVars, snaps, lastCall>>
  /\ UNCHANGED speedHist

\* CloseFile: m_bAbortRequest = true (the first statement of the call).
CloseFile(c) ==
  /\ c = "app"
  /\ ctl[c].pc = "idle"
  /\ m_bAbortRequest' = TRUE
  /\ ctl' = [ctl EXCEPT ![c] =
       [@ EXCEPT !.pc = "close_set", !.flag = FALSE, !.pre = pumps]]
  /\ UNCHANGED <<m_playSpeed, m_pauseEvent, m_gameClient, pumpVars,
                 clientVars, envVars, snaps, lastCall>>
  /\ UNCHANGED speedHist

\* CloseFile without m_pauseEvent.Set().
CloseFileNoSet(c) ==
  /\ ctl[c].pc = "close_set"
  /\ UNCHANGED m_pauseEvent
  /\ ctl' = [ctl EXCEPT ![c] = [@ EXCEPT !.pc = "close_join"]]
  /\ UNCHANGED <<m_bAbortRequest, m_playSpeed, m_gameClient, pumpVars,
                 clientVars, envVars, histVars>>
  /\ UNCHANGED speedHist

\* CloseFile: m_pauseEvent.Set()
CloseFileSet(c) ==
  /\ ctl[c].pc = "close_set"
  /\ m_pauseEvent' = TRUE
  /\ ctl' = [ctl EXCEPT ![c] = [@ EXCEPT !.pc = "close_join"]]
  /\ UNCHANGED <<m_bAbortRequest, m_playSpeed, m_gameClient, pumpVars,
                 clientVars, envVars, histVars>>
  /\ UNCHANGED speedHist

\* CloseFile with StopThread(false): it does not wait for the thread.
CloseFileNoJoin(c) ==
  /\ ctl[c].pc = "close_join"
  /\ ctl' = [ctl EXCEPT ![c] =
       IF ctl[c].flag THEN [Idle EXCEPT !.pc = "open", !.pre = ctl[c].pre]
       ELSE [Idle EXCEPT !.pc = "closed", !.pre = ctl[c].pre]]
  /\ UNCHANGED <<playerVars, pumpVars, clientVars, envVars, histVars>>
  /\ UNCHANGED speedHist

\* CloseFile: StopThread(true) returns once no pump is left; UnInit; return
\* to the caller (OpenFile when flag is set).
CloseFileJoin(c) ==
  /\ ctl[c].pc = "close_join"
  /\ pumps = 0
  /\ ctl' = [ctl EXCEPT ![c] =
       IF ctl[c].flag THEN [Idle EXCEPT !.pc = "open", !.pre = ctl[c].pre]
       ELSE [Idle EXCEPT !.pc = "closed", !.pre = ctl[c].pre]]
  /\ UNCHANGED <<playerVars, pumpVars, clientVars, envVars, histVars>>
  /\ UNCHANGED speedHist

\* CloseFile has returned true.
CloseFileReturn(c) ==
  /\ ctl[c].pc = "closed"
  /\ ctl' = [ctl EXCEPT ![c] = Idle]
  /\ UNCHANGED <<playerVars, pumpVars, clientVars, envVars, histVars>>
  /\ UNCHANGED speedHist

\* No query has been made.
NoQuery ==
  [cmd |-> "none", data |-> "NULL", ret |-> FALSE, out |-> "none",
   forwarded |-> <<>>, before |-> "none", undefined |-> FALSE]

\* CGameClient::OpenFile from "Ensure the default values" to retro_init:
\* the sinks get the defaults, the hooks are installed and, unless
\* m_bIsInited, the callback is given to the core.
InstallHooks(isInited) ==
  /\ m_pixelFormat' = "0RGB1555"
  /\ m_keyboardCallback' = "NULL"
  /\ hooks' = TRUE
  /\ environment' = IF isInited THEN environment ELSE "EnvironmentCallback"
  /\ query' = NoQuery
  /\ UNCHANGED stopRequested

\* OpenFile: m_bStop = false; if (IsRunning()) CloseFile();
OpenFileBegin(c) ==
  /\ c = "app"
  /\ ctl[c].pc = "idle"
  /\ IF IsRunning
     THEN /\ m_bAbortRequest' = TRUE
          /\ ctl' = [ctl EXCEPT ![c] =
               [@ EXCEPT !.pc = "close_set", !.flag = TRUE, !.pre = pumps]]
     ELSE /\ ctl' = [ctl EXCEPT ![c] = [@ EXCEPT !.pc = "open"]]
          /\ UNCHANGED m_bAbortRequest
  /\ UNCHANGED <<m_playSpeed, m_pauseEvent, m_gameClient, pumpVars,
                 clientVars, envVars, snaps, lastCall>>
  /\ UNCHANGED speedHist

\* The last core entry point an OpenFile with these outcomes calls.
OpenFileLastCall(wasLoaded, inited, loaded) ==
  IF inited THEN (IF loaded THEN "set_controller_port_device" ELSE "init")
  ELSE IF wasLoaded THEN "deinit" ELSE "none"

\* What a step of OpenFile that can fail returns, and the frame rates of the
\* games: without faults every step succeeds and every frame rate is valid.
Outcomes == IF faults THEN BOOLEAN ELSE {TRUE}
GameRates == IF faults THEN gameRates ELSE {f \in gameRates : FrameRateValid(f)}

\* History only: a RewindFrames in progress while OpenFile replaces the game
\* loses the ring length and the capture it was called with.
Orphaned(t) ==
  IF t.pc \in {"rw_loop", "rw_unser", "rw_ret"}
  THEN [t EXCEPT !.pre = -1, !.want = NoSnap]
  ELSE t

\* OpenFile from m_bAbortRequest = false to its return statement.
\*   haveClient: GetGameClient found a client;  inited: Init() returned true
\*   canOpen: CanOpen() returned true;  loaded: CGameClient::OpenFile loaded
\*   fps, size, boot: the game's frame rate, serialize size and first state
\*   serOk: the retro_serialize of CGameClient::OpenFile succeeded
OpenFileBody(c) ==
  /\ ctl[c].pc = "open"
  /\ m_bAbortRequest' = FALSE
  /\ \E haveClient \in Outcomes, inited \in Outcomes, canOpen \in Outcomes,
        loaded \in Outcomes, fps \in GameRates, size \in gameSizes,
        serOk \in BOOLEAN :
     \E boot \in BootStates(size) :
       LET call == OpenFileLastCall(gc.dllLoaded, inited, canOpen /\ loaded)
           afterInit == GameClientInit(gc, inited, inited)
           afterOpen == GameClientOpenFile(afterInit, loaded, fps, size,
                                           serOk, boot)
           Return(value) ==
             ctl' = [d \in Controllers |->
                       IF d = c
                       THEN [Idle EXCEPT
                               !.pc = "opened", !.flag = value,
                               !.pre = ctl[c].pre,
                               !.opened = <<haveClient /\ inited /\ canOpen
                                             /\ loaded, fps>>]
                       ELSE Orphaned(ctl[d])]
       IN
       /\ serOk => size > 0
       /\ Logged(IF ~haveClient THEN <<>>
                 ELSE GameClientInitCalls(gc, inited, inited) \o
                      (IF inited /\ canOpen
                       THEN OpenFileCalls(afterInit, loaded, size)
                       ELSE <<>>))
       /\ IF haveClient /\ inited /\ canOpen
          THEN InstallHooks(afterInit.m_bIsInited)
          ELSE UNCHANGED callbackVars
       /\ IF ~haveClient
          THEN /\ m_gameClient' = "NULL"
               /\ Return(FALSE)
               /\ UNCHANGED <<gc, coreState, coreSize, snaps, evicted, frameLog,
                              lastCall, pumps, pumpPc>>
          ELSE /\ lastCall' = IF pumps > 0 /\ call # "none"
                              THEN <<c, call, FALSE>> ELSE lastCall
               /\ IF ~inited
                  THEN /\ m_gameClient' = "client"
                       /\ gc' = afterInit
                       /\ coreState' = <<>>
                       /\ coreSize' = 0
                       /\ Return(FALSE)
                       /\ UNCHANGED <<snaps, evicted, frameLog, pumps, pumpPc>>
                  ELSE IF ~canOpen
                  THEN /\ m_gameClient' = "NULL"
                       /\ gc' = afterInit
                       /\ coreState' = <<>>
                       /\ coreSize' = 0
                       /\ Return(FALSE)
                       /\ UNCHANGED <<snaps, evicted, frameLog, pumps, pumpPc>>
                  ELSE IF ~loaded
                  THEN /\ m_gameClient' = "NULL"
                       /\ gc' = afterOpen
                       /\ coreState' = <<>>
                       /\ coreSize' = 0
                       /\ Return(FALSE)
                       /\ UNCHANGED <<snaps, evicted, frameLog, pumps, pumpPc>>
                  ELSE /\ gc' = afterOpen
                       /\ coreState' = boot
                       /\ coreSize' = size
                       /\ snaps' = Kept(<<(IF serOk THEN boot ELSE NoSnap)>>)
                       /\ evicted' = FALSE
                       /\ frameLog' = Cleared(frameLog)
                       /\ IF FrameRateValid(fps)
                          THEN /\ m_gameClient' = "client"
                               /\ pumps' = pumps + 1
                               /\ pumpPc' = "start"
                               /\ Return(TRUE)
                          ELSE /\ m_gameClient' = "NULL"
                               /\ Return(FALSE)
                               /\ UNCHANGED <<pumps, pumpPc>>
  /\ UNCHANGED <<m_playSpeed, m_pauseEvent, sinksStarted, m_critSection,
                 stateBuffer, runVars, loaderVars, sinkVars>>
  /\ UNCHANGED speedHist

\* OpenFile has returned ctl[c].flag.
OpenFileReturn(c) ==
  /\ ctl[c].pc = "opened"
  /\ ctl' = [ctl EXCEPT ![c] = Idle]
  /\ UNCHANGED <<playerVars, pumpVars, clientVars, envVars, histVars>>
  /\ UNCHANGED speedHist

\* ------------------------------------ CGameClient called directly

\* CGameClient::CloseFile
GameClientCloseFile(g) ==
  IF g.dllLoaded THEN [g EXCEPT !.m_bIsPlaying = FALSE] ELSE g

\* The calls of CloseFile on client g.
CloseFileCalls(g) == IF g.dllLoaded THEN <<"unload_game">> ELSE <<>>

\* The caller of the game client is between two operations.
ClientIdle(c) == ctl[c].pc = "idle" /\ pumpPc = "none" /\ ~Crashed

\* Init()
ClientInit(c) ==
  /\ ClientIdle(c)
  /\ \E loadOk \in BOOLEAN, apiOk \in BOOLEAN :
       /\ gc' = GameClientInit(gc, loadOk, apiOk)
       /\ Logged(GameClientInitCalls(gc, loadOk, apiOk))
  /\ coreState' = <<>>
  /\ coreSize' = 0
  /\ UNCHANGED <<playerVars, pumpVars, m_critSection, stateBuffer, ctl,
                 runVars, loaderVars, callbackVars, sinkVars, ringHist, frameHist,
                 histVars, speedHist>>

\* OpenFile(file, callbacks): Init() first if the library is not loaded,
\* its result ignored.
\*   propertyOk: the file's "gameclient" property is empty or names this
\*   client;  the other inputs as in OpenFileBody
ClientOpenFile(c) ==
  /\ ClientIdle(c)
  /\ \E loadOk \in BOOLEAN, apiOk \in BOOLEAN, propertyOk \in BOOLEAN,
        loaded \in BOOLEAN, fps \in GameRates, size \in gameSizes,
        serOk \in BOOLEAN :
     \E boot \in BootStates(size) :
       LET needInit == ~gc.dllLoaded
           afterInit == IF needInit THEN GameClientInit(gc, loadOk, apiOk)
                        ELSE gc
           initCalls == IF needInit
                        THEN GameClientInitCalls(gc, loadOk, apiOk)
                        ELSE <<>>
           afterOpen == GameClientOpenFile(afterInit, loaded, fps, size,
                                           serOk, boot)
       IN
       /\ serOk => size > 0
       /\ IF ~propertyOk
          THEN /\ gc' = afterInit
               /\ Logged(initCalls)
               /\ UNCHANGED <<coreState, coreSize, snaps, evicted, frameLog,
                              callbackVars>>
          ELSE IF ~afterInit.dllLoaded
          THEN /\ gc' = afterInit
               /\ Logged(initCalls \o
                         Through(afterInit, <<"set_environment">>))
               /\ InstallHooks(TRUE)
               /\ UNCHANGED <<coreState, coreSize, snaps, evicted, frameLog>>
          ELSE /\ gc' = afterOpen
               /\ Logged(initCalls \o OpenFileCalls(afterInit, loaded, size))
               /\ InstallHooks(afterInit.m_bIsInited)
               /\ IF loaded
                  THEN /\ coreState' = boot
                       /\ coreSize' = size
                       /\ snaps' = Kept(<<(IF serOk THEN boot ELSE NoSnap)>>)
                       /\ evicted' = FALSE
                       /\ frameLog' = Cleared(frameLog)
                  ELSE UNCHANGED <<coreState, coreSize, snaps, evicted, frameLog>>
  /\ UNCHANGED <<playerVars, pumpVars, m_critSection, stateBuffer, ctl,
                 runVars, loaderVars, sinkVars, lastCall, speedHist>>

\* CloseFile()
ClientCloseFile(c) ==
  /\ ClientIdle(c)
  /\ gc' = GameClientCloseFile(gc)
  /\ Logged(CloseFileCalls(gc))
  /\ coreState' = IF gc.dllLoaded THEN <<>> ELSE coreState
  /\ coreSize' = IF gc.dllLoaded THEN 0 ELSE coreSize
  /\ UNCHANGED <<playerVars, pumpVars, m_critSection, stateBuffer, ctl,
                 runVars, loaderVars, callbackVars, sinkVars, ringHist, frameHist,
                 histVars, speedHist>>

\* DeInit()
ClientDeInit(c) ==
  /\ ClientIdle(c)
  /\ gc' = DeInit(gc)
  /\ Logged(DeInitCalls(gc))
  /\ coreState' = IF gc.dllLoaded THEN <<>> ELSE coreState
  /\ coreSize' = IF gc.dllLoaded THEN 0 ELSE coreSize
  /\ UNCHANGED <<playerVars, pumpVars, m_critSection, stateBuffer, ctl,
                 runVars, loaderVars, callbackVars, sinkVars, ringHist, frameHist,
                 histVars, speedHist>>

\* RunFrame() is called.
ClientRunFrame(c) ==
  /\ ClientIdle(c)
  /\ pumpPc' = "frame"
  /\ UNCHANGED <<playerVars, pumps, sinksStarted, clientVars, ctl, envVars,
                 histVars, speedHist>>

\* RunFrame() returns to its caller (the lock is released).
ClientRunFrameReturn(c) ==
  /\ pumpPc = "unlock"
  /\ m_critSection' = "free"
  /\ stateBuffer' = <<>>
  /\ pumpPc' = "none"
  /\ lastCall' = NoCall
  /\ UNCHANGED <<playerVars, pumps, sinksStarted, gc, coreState, coreSize,
                 ctl, envVars, snaps, speedHist>>

\* RewindFrames(frames) is called.
ClientRewindFrames(c) ==
  /\ ClientIdle(c)
  /\ \E frames \in RewindArgs :
       ctl' = [ctl EXCEPT ![c] = [@ EXCEPT !.pc = "rewind", !.frames = frames]]
  /\ UNCHANGED <<playerVars, pumpVars, clientVars, envVars, histVars,
                 speedHist>>

\* ------------------------------- CGameClient: extensions and strategies

\* Strings are sequences of characters.
Zip == <<"z", "i", "p">>
ZipMixed == <<"Z", "i", "p">>
Nes == <<"n", "e", "s">>
NesUpper == <<"N", "E", "S">>
DotZip == <<".", "z", "i", "p">>
DotZipUpper == <<".", "Z", "I", "P">>
DotNes == <<".", "n", "e", "s">>
DotNesUpper == <<".", "N", "E", "S">>
DotSmc == <<".", "s", "m", "c">>

\* The entries StringUtils::SplitString(list, "|") yields for the extension
\* lists the cores report; "a||b" yields an empty entry.
ExtEntries == {<<>>, Zip, ZipMixed, Nes, NesUpper}

\* The extension lists of the cores, split at "|".
RECURSIVE ExtListsOf(_)
ExtListsOf(n) ==
  IF n = 0 THEN {<<>>}
  ELSE LET shorter == ExtListsOf(n - 1)
       IN  shorter \cup {Append(l, e) : l \in shorter, e \in ExtEntries}

ExtLists == ExtListsOf(MaxExts)

\* The extension lists of the cores whose files get resolved: none, "nes",
\* "zip" and "zip|NES".
CoreLists == {<<>>, <<Nes>>, <<Zip>>, <<Zip, NesUpper>>}

\* URIUtils::GetExtension(file.GetPath()) of the files that get opened.
FileExts == {DotZip, DotZipUpper, DotNes, DotNesUpper, DotSmc}

\* ToLower of one character.
ToLowerChar(ch) ==
  CASE ch = "Z" -> "z"
    [] ch = "I" -> "i"
    [] ch = "P" -> "p"
    [] ch = "N" -> "n"
    [] ch = "E" -> "e"
    [] ch = "S" -> "s"
    [] OTHER -> ch

\* CStdString::ToLower
ToLower(str) == [i \in 1 .. Len(str) |-> ToLowerChar(str[i])]

\* CStdString::Equals(other), which ignores case.
Equals(str, other) == ToLower(str) = ToLower(other)

\* std::find(v.begin(), v.end(), x) != v.end()
Found(v, x) == \E i \in 1 .. Len(v) : v[i] = x

\* The loop of SetExtensions over the entries, from m_validExtensions = valid.
RECURSIVE SetExtensionsLoop(_, _, _)
SetExtensionsLoop(extensions, allowZip, valid) ==
  IF extensions = <<>> THEN valid
  ELSE LET it == Head(extensions)
           dotted == <<".">> \o ToLower(it)
       IN  IF it = <<>> THEN SetExtensionsLoop(Tail(extensions), allowZip, valid)
           ELSE IF Equals(it, Zip) /\ ~allowZip
           THEN SetExtensionsLoop(Tail(extensions), allowZip, valid)
           ELSE SetExtensionsLoop(Tail(extensions), allowZip,
                  IF Found(valid, dotted) THEN valid ELSE Append(valid, dotted))

\* SetExtensions: m_validExtensions for the list `extensions`.
SetExtensions(extensions, allowZip) ==
  SetExtensionsLoop(extensions, allowZip, <<>>)

\* IsExtensionValid comparing the extension as it was given.
IsExtensionValidExact(valid, ext) == valid = <<>> \/ Found(valid, ext)

\* IsExtensionValid
IsExtensionValid(valid, ext) ==
  IF valid = <<>> THEN TRUE ELSE Found(valid, ToLower(ext))

\* The files OpenFile is given.  local: the file's URL has no protocol;
\* ext: the extension of its path;  inZip: URIUtils::IsInZIP;  atRoot: the
\* parent URL has no file name;  zipLocal: the parent URL has no protocol;
\* hasGame: the listing of the zip, filtered by the valid extensions, is not
\* empty;  readable: the host can open and read the path with a length
\* in (0, SIZE_MAX).  What a strategy never reads is held at FALSE.
Files ==
  {f \in [local : BOOLEAN, ext : FileExts, inZip : BOOLEAN, atRoot : BOOLEAN,
          zipLocal : BOOLEAN, hasGame : BOOLEAN, readable : BOOLEAN] :
     /\ f.inZip => ~f.local
     /\ ~f.inZip => (~f.atRoot /\ ~f.zipLocal)
     /\ f.hasGame => Equals(f.ext, DotZip)}

\* No file: the game client is not asked to resolve one.
NoFile ==
  [local |-> FALSE, ext |-> <<>>, inZip |-> FALSE, atRoot |-> FALSE,
   zipLocal |-> FALSE, hasGame |-> FALSE, readable |-> FALSE]

\* IRetroStrategy *strategies[] = {&s1, &s2, &s3, &s4}
Strategies == <<"UseHD", "UseParentZip", "UseVFS", "EnterZip">>

\* std::swap(s[i], s[j])
Swap(s, i, j) == [s EXCEPT ![i] = s[j], ![j] = s[i]]

\* StrategyOrder with only the first pair swapped.
StrategyOrderHalf(preferVFS) ==
  IF preferVFS THEN Swap(Strategies, 1, 3) ELSE Strategies

\* The array the loop walks: two swaps when m_bPreferVFS is set.
StrategyOrder(preferVFS) ==
  IF preferVFS THEN Swap(Swap(Strategies, 1, 3), 2, 4) ELSE Strategies

\* CanLoad of each strategy.  UseParentZip asks IsExtensionValid("zip"),
\* without the dot m_validExtensions holds.
CanLoad(s, valid, allowVFS, f) ==
  CASE s = "UseHD" -> f.local /\ IsExtensionValid(valid, f.ext)
    [] s = "UseVFS" -> allowVFS /\ IsExtensionValid(valid, f.ext)
    [] s = "UseParentZip" ->
         f.inZip /\ IsExtensionValid(valid, Zip) /\ f.atRoot /\ f.zipLocal
    [] s = "EnterZip" -> Equals(f.ext, DotZip) /\ allowVFS /\ f.hasGame

\* <<m_path, m_useVfs>> a strategy's CanLoad leaves: the file's path, the
\* host name of the parent URL (the archive) or the file found in the zip.
Presentation(s) ==
  CASE s = "UseHD" -> <<"path", FALSE>>
    [] s = "UseVFS" -> <<"path", TRUE>>
    [] s = "UseParentZip" -> <<"archive", FALSE>>
    [] s = "EnterZip" -> <<"internalFile", TRUE>>

\* IRetroStrategy::GetGameInfo: a path is handed over as it is, a VFS file
\* has to be read into memory.
GetGameInfo(s, f) == IF ~Presentation(s)[2] THEN TRUE ELSE f.readable

\* The resolver when nobody runs it.
ResolverIdle ==
  [pc |-> "unused", i |-> 0, tried |-> <<>>, calls |-> <<>>,
   success |-> FALSE]

\* The specifications of the player leave the loader alone: OpenFileBody
\* takes the outcome of the strategy loop as its input `loaded`.
LoaderUnused ==
  /\ g_advancedSettings = [m_bPreferVFS |-> FALSE, m_bAllowZip |-> FALSE]
  /\ info = [valid_extensions |-> <<>>, need_fullpath |-> FALSE]
  /\ m_validExtensions = <<>>
  /\ m_bAllowVFS = FALSE
  /\ file = NoFile
  /\ resolver = ResolverIdle

\* CGameClient::Init from retro_get_system_info on.
GameClientInitInfo ==
  /\ resolver.pc = "new"
  /\ m_validExtensions' =
       SetExtensions(info.valid_extensions, g_advancedSettings.m_bAllowZip)
  /\ m_bAllowVFS' = ~info.need_fullpath
  /\ resolver' = [resolver EXCEPT !.pc = "inited"]
  /\ UNCHANGED <<g_advancedSettings, info, file>>
  /\ UNCHANGED <<playVars, callbackVars>>

\* bool success = false, and the loop's i = 0.
ResolverBegin ==
  /\ resolver.pc = "inited"
  /\ resolver' = [resolver EXCEPT !.pc = "loop", !.i = 1, !.success = FALSE]
  /\ UNCHANGED <<g_advancedSettings, info, m_validExtensions, m_bAllowVFS,
                 file>>
  /\ UNCHANGED <<playVars, callbackVars>>

\* LoopBreaks as if the loop had no break.
LoopBreaksNever(loaded) == FALSE

\* Whether the loop is left after retro_load_game returned `loaded`.
LoopBreaks(loaded) == loaded

\* One turn of the loop over strategies[]: CanLoad && GetGameInfo, then
\* retro_load_game, whose answer is the core's.
ResolverTurn ==
  /\ resolver.pc = "loop"
  /\ resolver.i <= Len(Strategies)
  /\ LET s == StrategyOrder(g_advancedSettings.m_bPreferVFS)[resolver.i]
     IN  IF CanLoad(s, m_validExtensions, m_bAllowVFS, file)
              /\ GetGameInfo(s, file)
         THEN \E loaded \in BOOLEAN :
                resolver' = [resolver EXCEPT
                  !.tried = Append(@, s),
                  !.calls = Append(@, <<s, Presentation(s)[1], loaded>>),
                  !.success = @ \/ loaded,
                  !.i = IF LoopBreaks(loaded) THEN @ ELSE @ + 1,
                  !.pc = IF LoopBreaks(loaded) THEN "done" ELSE "loop"]
         ELSE resolver' = [resolver EXCEPT !.tried = Append(@, s),
                                           !.i = @ + 1]
  /\ UNCHANGED <<g_advancedSettings, info, m_validExtensions, m_bAllowVFS,
                 file>>
  /\ UNCHANGED <<playVars, callbackVars>>

\* The loop ran out of strategies: if (!success) return false.
ResolverEnd ==
  /\ resolver.pc = "loop"
  /\ resolver.i > Len(Strategies)
  /\ resolver' = [resolver EXCEPT !.pc = "done"]
  /\ UNCHANGED <<g_advancedSettings, info, m_validExtensions, m_bAllowVFS,
                 file>>
  /\ UNCHANGED <<playVars, callbackVars>>

\* --------------------------------------- CGameClient::EnvironmentCallback

\* The environment queries the callback has a case for, and one it has not.
Commands ==
  {"GET_OVERSCAN", "GET_CAN_DUPE", "GET_VARIABLE", "SET_VARIABLES",
   "SET_MESSAGE", "SET_ROTATION", "SHUTDOWN", "SET_PERFORMANCE_LEVEL",
   "GET_SYSTEM_DIRECTORY", "SET_PIXEL_FORMAT", "SET_INPUT_DESCRIPTORS",
   "SET_KEYBOARD_CALLBACK", "GET_LANGUAGE"}

\* What `data` may point to for each query; "NULL" is the null pointer.
Payloads(cmd) ==
  CASE cmd = "SET_PIXEL_FORMAT" ->
         {"0RGB1555", "XRGB8888", "RGB565", "UNKNOWN"}
    [] cmd = "SET_KEYBOARD_CALLBACK" -> {"callback", "no callback"}
    [] cmd = "GET_VARIABLE" -> {"too_sexy_for", "other key", "no key"}
    [] OTHER -> {"payload"}

\* The specifications of the player leave the callback alone.
CallbackUnused ==
  /\ hooks = FALSE
  /\ environment = "NULL"
  /\ m_pixelFormat = "none"
  /\ m_keyboardCallback = "NULL"
  /\ stopRequested = FALSE
  /\ query = NoQuery

\* CGameClient::OpenFile on a game client, as far as retro_init.
OpenFileHooks ==
  /\ InstallHooks(gc.m_bIsInited)
  /\ UNCHANGED <<playVars, loaderVars>>

\* PixelFormatValid as if the inner switch had no default case.
PixelFormatAny(pix_fmt) == TRUE

\* The formats the inner switch of SET_PIXEL_FORMAT forwards.
PixelFormatValid(pix_fmt) == pix_fmt \in {"0RGB1555", "XRGB8888", "RGB565"}

\* The check of `data` at the head of the callback lets the query through.
HasData(cmd, data) ==
  cmd \in {"SHUTDOWN", "GET_SYSTEM_DIRECTORY"} \/ data # "NULL"

\* EnvironmentResult as if SHUTDOWN fell through to the unhandled commands.
EnvironmentResultUnhandled(cmd, data) ==
  CASE cmd = "SET_PIXEL_FORMAT" -> PixelFormatValid(data)
    [] cmd \in {"GET_LANGUAGE", "SHUTDOWN"} -> FALSE
    [] OTHER -> TRUE

\* What the callback returns for a query that got past the check of `data`.
EnvironmentResult(cmd, data) ==
  CASE cmd = "SET_PIXEL_FORMAT" -> PixelFormatValid(data)
    [] cmd = "GET_LANGUAGE" -> FALSE
    [] OTHER -> TRUE

\* What the callback writes through `data`.
EnvironmentOut(cmd, data) ==
  CASE cmd = "GET_OVERSCAN" -> "false"
    [] cmd = "GET_CAN_DUPE" -> "true"
    [] cmd = "GET_VARIABLE" ->
         IF data = "too_sexy_for" THEN "my_shirt" ELSE "NULL"
    [] cmd = "GET_SYSTEM_DIRECTORY" -> "NULL"
    [] OTHER -> "none"

\* g_application.StopPlaying(): the application has a stop request.
StopPlaying(requested) == TRUE

\* EnvironmentCallback(cmd, data) on the host's state.  isRetroPlayer: the
\* application has a player and it is RetroPlayer.  GET_SYSTEM_DIRECTORY
\* with a null `data` writes through the null pointer: anything may be
\* returned.
EnvironmentQuery(cmd, data, isRetroPlayer) ==
  IF ~HasData(cmd, data)
  THEN /\ query' = [NoQuery EXCEPT !.cmd = cmd, !.data = data,
                                   !.before = m_pixelFormat]
       /\ UNCHANGED <<m_pixelFormat, m_keyboardCallback, stopRequested>>
  ELSE IF cmd = "GET_SYSTEM_DIRECTORY" /\ data = "NULL"
  THEN /\ \E ret \in BOOLEAN :
            query' = [NoQuery EXCEPT !.cmd = cmd, !.data = data,
                                     !.ret = ret, !.undefined = TRUE,
                                     !.before = m_pixelFormat]
       /\ UNCHANGED <<m_pixelFormat, m_keyboardCallback, stopRequested>>
  ELSE LET forwards == cmd = "SET_PIXEL_FORMAT" /\ PixelFormatValid(data)
       IN  /\ m_pixelFormat' = IF forwards THEN data ELSE m_pixelFormat
           /\ m_keyboardCallback' =
                IF cmd = "SET_KEYBOARD_CALLBACK" /\ data = "callback"
                THEN "callback" ELSE m_keyboardCallback
           /\ stopRequested' =
                IF cmd = "SHUTDOWN" /\ isRetroPlayer
                THEN StopPlaying(stopRequested) ELSE stopRequested
           /\ query' =
                [cmd |-> cmd, data |-> data,
                 ret |-> EnvironmentResult(cmd, data),
                 out |-> IF data = "NULL" THEN "none"
                         ELSE EnvironmentOut(cmd, data),
                 forwarded |-> IF forwards THEN <<data>> ELSE <<>>,
                 before |-> m_pixelFormat, undefined |-> FALSE]

\* The core calls EnvironmentCallback(cmd, data).
EnvironmentCallback ==
  /\ environment = "EnvironmentCallback"
  /\ \E cmd \in Commands, isRetroPlayer \in BOOLEAN :
       \E data \in Payloads(cmd) \cup {"NULL"} :
         EnvironmentQuery(cmd, data, isRetroPlayer)
  /\ UNCHANGED <<hooks, environment>>
  /\ UNCHANGED <<playVars, loaderVars>>

\* OnAudioSampleBatch as if it did not look at the speed.
AudioSentAnySpeed(data, frames, speed) == data # "NULL" /\ frames # 0

\* OnAudioSampleBatch: whether the batch goes to m_audio.SendAudioFrames.
AudioSent(data, frames, speed) ==
  data # "NULL" /\ frames # 0 /\ speed = PLAYSPEED_NORMAL

\* The core, inside the retro_run of RunFrame, calls the audio callback:
\* OnAudioSampleBatch(data, frames), or OnAudioSample, which passes on a
\* batch of one frame.
OnAudioSampleBatch ==
  /\ pumps = 1
  /\ pumpPc = "append"
  /\ gc.m_bIsPlaying
  /\ \E data \in {"NULL", "samples"}, frames \in {0, 1} :
       audio' =
         [data |-> data, frames |-> frames, speed |-> m_playSpeed,
          sent |-> AudioSent(data, frames, m_playSpeed),
          muted |-> \/ audio.muted
                    \/ /\ data # "NULL" /\ frames # 0
                       /\ ~AudioSent(data, frames, m_playSpeed)]
  /\ UNCHANGED <<playerVars, pumpVars, clientVars, ctl, runVars, histVars,
                 speedHist, loaderVars, callbackVars, ringHist, frameHist, abiHist,
                 sinks>>

\* The core, inside the retro_run of RunFrame, asks the host to shut down.
\* g_application and its StopPlaying are the application's: while the pump
\* runs the application's player is this RetroPlayer, and StopPlaying is a
\* request the application acts on by calling CloseFile.
RunFrameShutdown ==
  /\ pumps = 1
  /\ pumpPc = "append"
  /\ gc.m_bIsPlaying
  /\ environment = "EnvironmentCallback"
  /\ \E data \in Payloads("SHUTDOWN") \cup {"NULL"} :
       EnvironmentQuery("SHUTDOWN", data, TRUE)
  /\ UNCHANGED <<hooks, environment>>
  /\ UNCHANGED <<playVars, loaderVars>>

\* ------------------------------------------------------ specifications

\* The application thread opens and closes the player.
Lifecycle(c) ==
  \/ OpenFileBegin(c)
  \/ OpenFileBody(c)
  \/ OpenFileReturn(c)
  \/ CloseFile(c)
  \/ CloseFileSet(c)
  \/ CloseFileJoin(c)
  \/ CloseFileReturn(c)

\* A controller thread seeks backwards and asks for the time.
Rewinder(c) ==
  \/ Seek(c)
  \/ SeekPercentage(c)
  \/ RewindLock(c)
  \/ RewindLoop(c)
  \/ RewindUnserialize(c)
  \/ RewindReturn(c)

\* A controller thread pauses and resumes.
Pauser(c) ==
  \/ PauseTest(c)
  \/ PauseWrite(c)
  \/ PauseEventSet(c)

\* A controller thread changes the speed.
SpeedChanger(c) ==
  \/ Pauser(c)
  \/ ToFFRWTest(c)
  \/ ToFFRWWrite(c)

\* The frame pump at a speed that is never zero.
PumpRunning ==
  \/ PumpStart
  \/ PumpLoop
  \/ PumpSpeed
  \/ RunFrame
  \/ AppendStateDelta
  \/ AppendPush
  \/ AppendOverwrite
  \/ AppendEvict
  \/ RunFrameReturn
  \/ PumpExit

\* The frame pump on games without save states.
PumpNoRewind ==
  \/ PumpStart
  \/ PumpLoop
  \/ PumpSpeed
  \/ PumpWait
  \/ RunFrame
  \/ AppendStateDelta
  \/ RunFrameReturn
  \/ PumpExit

\* Playback of games with save states at normal speed: the application
\* thread opens and closes, the ui thread seeks backwards.
Init ==
  /\ Constructed
  /\ ringCap = MaxRing
  /\ gameSizes = SerializeSizes \ {0}
  /\ faults = FALSE
  /\ gameRates = FrameRates
  /\ watch = {}
  /\ callCap = 0
  /\ LoaderUnused
  /\ CallbackUnused

Next ==
  \/ PumpRunning
  \/ Lifecycle("app")
  \/ Rewinder("ui")

Spec == Init /\ [][Next]_vars

\* The same playback with the history of captures kept: what the core's
\* state was at each capture the ring retains.
InitSnaps ==
  /\ Constructed
  /\ ringCap = MaxRing
  /\ gameSizes = SerializeSizes \ {0}
  /\ faults = FALSE
  /\ gameRates = FrameRates
  /\ watch = {"snaps"}
  /\ callCap = 0
  /\ LoaderUnused
  /\ CallbackUnused

SpecSnaps == InitSnaps /\ [][Next]_vars

\* The same playback of games with save states of one word, with the
\* history of the runs each capture in the ring followed.
InitOrder ==
  /\ Constructed
  /\ ringCap = MaxRing
  /\ gameSizes = {WordBytes}
  /\ faults = FALSE
  /\ gameRates = FrameRates
  /\ watch = {"made"}
  /\ callCap = 0
  /\ LoaderUnused
  /\ CallbackUnused

SpecOrder == InitOrder /\ [][Next]_vars

\* Playback of games with save states: the application thread opens, closes
\* and pauses.
NextClose ==
  \/ Pump
  \/ Lifecycle("app")
  \/ Pauser("app")

InitClose ==
  /\ Constructed
  /\ ringCap = MaxRingClose
  /\ gameSizes = SerializeSizes \ {0}
  /\ faults = TRUE
  /\ gameRates = FrameRates
  /\ watch = {}
  /\ callCap = 0
  /\ LoaderUnused
  /\ CallbackUnused

SpecClose == InitClose /\ [][NextClose]_vars

\* As InitClose, with every game at 60.0988 fps (a frame rate out of range
\* is one more way for OpenFile to fail before the pump is created) and
\* save states of one word.
InitStop ==
  /\ Constructed
  /\ ringCap = MaxRingClose
  /\ gameSizes = {WordBytes}
  /\ faults = TRUE
  /\ gameRates = {600988}
  /\ watch = {}
  /\ callCap = 0
  /\ LoaderUnused
  /\ CallbackUnused

\* The same threads under fair scheduling: the pump thread keeps taking
\* steps while it can, and a CloseFile that was called runs to its end.
FairClose ==
  /\ InitStop /\ [][NextClose]_vars
  /\ WF_vars(Pump)
  /\ WF_vars(CloseFileSet("app"))
  /\ WF_vars(CloseFileJoin("app"))

\* Playback of games without save states: the application thread opens and
\* closes, both controller threads change the speed.
InitSpeed ==
  /\ Constructed
  /\ ringCap = MaxRing
  /\ gameSizes = {0}
  /\ faults = TRUE
  /\ gameRates = FrameRates
  /\ watch = {}
  /\ callCap = 0
  /\ LoaderUnused
  /\ CallbackUnused

NextSpeed ==
  \/ PumpNoRewind
  \/ Lifecycle("app")
  \/ \E c \in Controllers : SpeedChanger(c)

SpecSpeed == InitSpeed /\ [][NextSpeed]_vars

\* Playback of games with and without save states, one after the other on
\* the same game client: the application thread opens and closes, the ui
\* thread calls RewindFrames.
RewindCaller(c) ==
  \/ RewindFramesCall(c)
  \/ RewindLock(c)
  \/ RewindLoop(c)
  \/ RewindUnserialize(c)
  \/ RewindReturn(c)

InitGames ==
  /\ Constructed
  /\ ringCap = MaxRing
  /\ gameSizes = SerializeSizes
  /\ faults = FALSE
  /\ gameRates = FrameRates
  /\ watch = {}
  /\ callCap = 0
  /\ LoaderUnused
  /\ CallbackUnused

NextGames ==
  \/ PumpRunning
  \/ Lifecycle("app")
  \/ RewindCaller("ui")

SpecGames == InitGames /\ [][NextGames]_vars

\* The strategy loop of CGameClient::OpenFile on every file, for every core
\* and every setting: a game client is constructed, Init reads the core's
\* system info and OpenFile walks the strategies.
InitLoader ==
  /\ Constructed
  /\ ringCap = MaxRing
  /\ gameSizes = SerializeSizes
  /\ faults = FALSE
  /\ gameRates = FrameRates
  /\ watch = {}
  /\ callCap = 0
  /\ g_advancedSettings \in [m_bPreferVFS : BOOLEAN, m_bAllowZip : BOOLEAN]
  /\ info \in [valid_extensions : CoreLists, need_fullpath : BOOLEAN]
  /\ m_validExtensions = <<>>
  /\ m_bAllowVFS = FALSE
  /\ file \in Files
  /\ resolver = [ResolverIdle EXCEPT !.pc = "new"]
  /\ CallbackUnused

NextLoader ==
  \/ GameClientInitInfo
  \/ ResolverBegin
  \/ ResolverTurn
  \/ ResolverEnd

SpecLoader == InitLoader /\ [][NextLoader]_vars

\* CGameClient::Init on every core: a game client is constructed and Init
\* sets its extensions from the list the core reports.
InitExtensions ==
  /\ Constructed
  /\ ringCap = MaxRing
  /\ gameSizes = SerializeSizes
  /\ faults = FALSE
  /\ gameRates = FrameRates
  /\ watch = {}
  /\ callCap = 0
  /\ g_advancedSettings \in [m_bPreferVFS : BOOLEAN, m_bAllowZip : BOOLEAN]
  /\ info \in [valid_extensions : ExtLists, need_fullpath : BOOLEAN]
  /\ m_validExtensions = <<>>
  /\ m_bAllowVFS = FALSE
  /\ file = NoFile
  /\ resolver = [ResolverIdle EXCEPT !.pc = "new"]
  /\ CallbackUnused

NextExtensions == GameClientInitInfo

SpecExtensions == InitExtensions /\ [][NextExtensions]_vars

\* The core querying the host: OpenFile installs the hooks and registers
\* the callback, and from then on the core may make any query at any time.
InitEnvironment ==
  /\ Constructed
  /\ ringCap = MaxRing
  /\ gameSizes = SerializeSizes
  /\ faults = FALSE
  /\ gameRates = FrameRates
  /\ watch = {}
  /\ callCap = 0
  /\ LoaderUnused
  /\ CallbackUnused

NextEnvironment ==
  \/ OpenFileHooks
  \/ EnvironmentCallback

SpecEnvironment == InitEnvironment /\ [][NextEnvironment]_vars

\* A game without save states is played and paused while its core asks
\* the host to shut down.
InitShutdown ==
  /\ Constructed
  /\ ringCap = MaxRingClose
  /\ gameSizes = {0}
  /\ faults = FALSE
  /\ gameRates = FrameRates
  /\ watch = {}
  /\ callCap = 0
  /\ LoaderUnused
  /\ CallbackUnused

NextShutdown ==
  \/ PumpNoRewind
  \/ Lifecycle("app")
  \/ Pauser("ui")
  \/ RunFrameShutdown

SpecShutdown == InitShutdown /\ [][NextShutdown]_vars

\* SpecShutdown with the pump thread scheduled fairly.
FairShutdown == SpecShutdown /\ WF_vars(PumpNoRewind)

\* A game without save states is played while the ui thread changes the
\* speed and the core hands over audio.
InitAudio ==
  /\ Constructed
  /\ ringCap = MaxRingClose
  /\ gameSizes = {0}
  /\ faults = FALSE
  /\ gameRates = FrameRates
  /\ watch = {}
  /\ callCap = 0
  /\ LoaderUnused
  /\ CallbackUnused

NextAudio ==
  \/ PumpNoRewind
  \/ Lifecycle("app")
  \/ SpeedChanger("ui")
  \/ OnAudioSampleBatch

SpecAudio == InitAudio /\ [][NextAudio]_vars

\* Playback of games without save states: the application thread opens and
\* closes, the ui thread pauses and sets the speed, negative speeds
\* included.
InitPause ==
  /\ Constructed
  /\ ringCap = MaxRingClose
  /\ gameSizes = {0}
  /\ faults = FALSE
  /\ gameRates = FrameRates
  /\ watch = {"reverse", "idle", "divisor"}
  /\ callCap = 0
  /\ LoaderUnused
  /\ CallbackUnused

NextPause ==
  \/ PumpNoRewind
  \/ PumpAdvance
  \/ Lifecycle("app")
  \/ SpeedChanger("ui")

SpecPause == InitPause /\ [][NextPause]_vars

\* SpecPause under fair scheduling: the pump thread keeps taking steps
\* while it can.
FairPause == SpecPause /\ WF_vars(PumpNoRewind \/ PumpAdvance)

\* Spec with what SeekPercentage read kept for the end of its rewind.
InitPercent ==
  /\ Constructed
  /\ ringCap = MaxRing
  /\ gameSizes = SerializeSizes \ {0}
  /\ faults = FALSE
  /\ gameRates = FrameRates
  /\ watch = {"percent"}
  /\ callCap = 0
  /\ LoaderUnused
  /\ CallbackUnused

SpecPercent == InitPercent /\ [][Next]_vars

\* A game with save states of one word at 5 frames per second, with a ring
\* that can hold more than a one-second seek: the application thread opens and
\* closes, the ui thread seeks backwards.
SeekCaller(c) ==
  \/ Seek(c)
  \/ RewindLock(c)
  \/ RewindLoop(c)
  \/ RewindUnserialize(c)
  \/ RewindReturn(c)

InitSeek ==
  /\ Constructed
  /\ ringCap = MaxRingSeek
  /\ gameSizes = {WordBytes}
  /\ faults = FALSE
  /\ gameRates = {MinFrameRate}
  /\ watch = {"evicted", "snaps"}
  /\ callCap = 0
  /\ LoaderUnused
  /\ CallbackUnused

NextSeek ==
  \/ PumpRunning
  \/ Lifecycle("app")
  \/ SeekCaller("ui")

SpecSeek == InitSeek /\ [][NextSeek]_vars

\* Games without save states at frame rates on both sides of the limits,
\* and one whose core reports no number: the application thread opens and
\* closes, and any step of OpenFile can fail.
RatesAtLimits ==
  {MinFrameRate - 1000, MinFrameRate, MaxFrameRate, MaxFrameRate + 1000, NaN}

InitRates ==
  /\ Constructed
  /\ ringCap = MaxRingClose
  /\ gameSizes = {0}
  /\ faults = TRUE
  /\ gameRates = RatesAtLimits
  /\ watch = {}
  /\ callCap = 0
  /\ LoaderUnused
  /\ CallbackUnused

NextRates ==
  \/ PumpNoRewind
  \/ Lifecycle("app")
  \/ Pauser("ui")

SpecRates == InitRates /\ [][NextRates]_vars

\* Games without save states are opened, played and closed, any step of
\* OpenFile can fail, and the calls made to the core are recorded.
InitCalls ==
  /\ Constructed
  /\ ringCap = MaxRingClose
  /\ gameSizes = {0}
  /\ faults = TRUE
  /\ gameRates = FrameRates
  /\ watch = {"Load", "set_environment", "init", "run", "crash"}
             \cup {Setters[i] : i \in 1 .. Len(Setters)}
  /\ callCap = MaxCalls
  /\ LoaderUnused
  /\ CallbackUnused

NextCalls ==
  \/ PumpNoRewind
  \/ Lifecycle("app")
  \/ Pauser("ui")

SpecCalls == InitCalls /\ [][NextCalls]_vars

\* A game client used directly by one caller, in any order of Init,
\* OpenFile, RunFrame, RewindFrames, CloseFile and DeInit, on games without
\* save states and with save states of one word; the calls made to the core
\* are recorded.
InitClient ==
  /\ Constructed
  /\ ringCap = MaxRingClose
  /\ gameSizes = {0, WordBytes}
  /\ faults = FALSE
  /\ gameRates = FrameRates
  /\ watch = {"Load", "load_game", "serialize", "unserialize",
              "unload_game", "deinit", "Unload", "crash"}
  /\ callCap = MaxClientCalls
  /\ LoaderUnused
  /\ CallbackUnused

NextClient ==
  \/ ClientInit("ui")
  \/ ClientOpenFile("ui")
  \/ ClientCloseFile("ui")
  \/ ClientDeInit("ui")
  \/ ClientRunFrame("ui")
  \/ RunFrame
  \/ AppendStateDelta
  \/ AppendPush
  \/ AppendOverwrite
  \/ AppendEvict
  \/ ClientRunFrameReturn("ui")
  \/ ClientRewindFrames("ui")
  \/ RewindLock("ui")
  \/ RewindLoop("ui")
  \/ RewindUnserialize("ui")
  \/ RewindReturn("ui")

SpecClient == InitClient /\ [][NextClient]_vars

\* A ceiling of the model above 60.0 * fps for every accepted frame rate.
RingUncapped == Trunc(RewindSeconds * MaxFrameRate) + 1

\* Frame rates from MinFrameRate on, 1/1000 frame per second apart, and
\* the rates of FrameRates.
CeilingRates ==
  FrameRates \cup {MinFrameRate + 10 * k : k \in 0 .. MaxRateSteps}

\* A game client used directly: games with save states at the rates of
\* CeilingRates are opened and closed, and no frame is run.
InitCeiling ==
  /\ Constructed
  /\ ringCap = RingUncapped
  /\ gameSizes = {WordBytes}
  /\ faults = FALSE
  /\ gameRates = CeilingRates
  /\ watch = {}
  /\ callCap = 0
  /\ LoaderUnused
  /\ CallbackUnused

NextCeiling ==
  \/ ClientInit("ui")
  \/ ClientOpenFile("ui")
  \/ ClientCloseFile("ui")
  \/ ClientDeInit("ui")

SpecCeiling == InitCeiling /\ [][NextCeiling]_vars

\* Games without save states, with and without a usable sample rate, are
\* opened, played, paused and closed; the starts and stops of the sinks are
\* recorded.
InitSinks ==
  /\ Constructed
  /\ ringCap = MaxRingClose
  /\ gameSizes = {0}
  /\ faults = FALSE
  /\ gameRates = FrameRates
  /\ watch = {"sinks"}
  /\ callCap = 0
  /\ LoaderUnused
  /\ CallbackUnused

NextSinks ==
  \/ PumpNoRewind
  \/ Lifecycle("app")
  \/ Pauser("ui")

SpecSinks == InitSinks /\ [][NextSinks]_vars

\* ---------------------------------------------------------------- claims

\* The frame pump is inside RunFrame, between taking and releasing the lock.
PumpInRunFrame ==
  pumpPc \in {"append", "push", "overwrite", "evict", "unlock"}

\* Controller c is inside RewindFrames, between taking and releasing the lock.
InRewindFrames(c) == ctl[c].pc \in {"rw_loop", "rw_unser", "rw_ret"}

\* C1: whenever a controller thread can read the ring length through
\* RewindFramesAvail (the player holds a game client), the length is at most
\* RewindFramesAvailMax.
C1_RingWithinMax ==
  m_gameClient # "NULL" => RewindFramesAvail <= RewindFramesAvailMax

\* C2: when the loop of RewindFrames(k) is over, the ring length is
\* max(0, pre - k), and the state handed to retro_unserialize is the state
\* the core had min(k, pre) captures before the call (pre is the ring length
\* at the call; the game is not replaced during the call).
C2_RewindRestoresSnapshot ==
  \A c \in Controllers :
    /\ (ctl[c].pc = "rw_unser" /\ ctl[c].pre >= 0) =>
         RewindFramesAvail = Max(0, ctl[c].pre - ctl[c].k)
    /\ (ctl[c].pc = "rw_ret" /\ ctl[c].rewound > 0 /\ ctl[c].want # NoSnap) =>
         coreState = ctl[c].want

\* C2 witness: a rewind by fewer frames than the ring held has handed
\* retro_unserialize a capture that is not the oldest one retained.
C2_Witness ==
  \E c \in Controllers :
    /\ ctl[c].pc = "rw_ret"
    /\ ctl[c].rewound > 0
    /\ Len(gc.m_rewindBuffer) > 0
    /\ ctl[c].want # NoSnap
    /\ coreState = ctl[c].want
    /\ coreState # BootOf(snaps)

\* C3: no controller is inside RewindFrames while the pump is inside RunFrame.
C3_RewindExcludesRunFrame ==
  \A c \in Controllers : ~(PumpInRunFrame /\ InRewindFrames(c))

\* C3 witness: the pump is about to enter RunFrame while a controller is in
\* the loop of RewindFrames with deltas to pop.
C3_Witness ==
  \E c \in Controllers :
    /\ pumpPc = "frame"
    /\ ctl[c].pc = "rw_loop"
    /\ Len(gc.m_rewindBuffer) > 0

\* C10 as claimed: every core entry point called while a frame pump is alive
\* is called by the pump.
C10_OnlyPumpCallsCore == lastCall[1] \in {"none", "pump"}

\* C10 amended: while a frame pump is alive, run and serialize are called by
\* the pump only, unserialize by a controller only, each caller holding
\* m_critSection, and no other entry point is called.
C10_CoreCallers ==
  /\ lastCall[2] \in {"none", "run", "serialize", "unserialize"}
  /\ lastCall[2] \in {"run", "serialize"} => lastCall[1] = "pump" /\ lastCall[3]
  /\ lastCall[2] = "unserialize" => lastCall[1] \in Controllers /\ lastCall[3]

\* C10 witness: a controller has called unserialize while the pump is alive.
C10_Witness ==
  /\ pumps = 1
  /\ pumpPc = "frame"
  /\ lastCall[1] \in Controllers
  /\ lastCall[2] = "unserialize"

\* C4: under fair scheduling, once CloseFile has set m_bAbortRequest the
\* pump thread exits and the join of CloseFile returns.
C4_CloseStopsPump ==
  (ctl["app"].pc = "close_set") ~>
    (pumps = 0 /\ ctl["app"].pc \in {"closed", "open"})

\* C4 witness: CloseFile has set m_bAbortRequest while the pump is blocked in
\* m_pauseEvent.Wait() and the event is not signaled.
C4_Witness ==
  /\ ctl["app"].pc = "close_set"
  /\ ctl["app"].pre = 1
  /\ pumpPc = "wait"
  /\ ~m_pauseEvent

\* C5: an OpenFile that returns false leaves no pump, no started sink and no
\* game client held by the player.
C5_FailedOpenIdle ==
  (ctl["app"].pc = "opened" /\ ~ctl["app"].flag) =>
    /\ pumps = 0
    /\ ~sinksStarted
    /\ m_gameClient = "NULL"

\* C6: at most one thread runs Process at any time.
C6_OnePump == pumps <= 1

\* C6 witness: an OpenFile called while a pump was running has returned true
\* with one pump alive.
C6_Witness ==
  /\ ctl["app"].pc = "opened"
  /\ ctl["app"].flag
  /\ ctl["app"].pre = 1
  /\ pumps = 1

\* The application thread is in a CloseFile called with no pump alive.
ClosingClosed ==
  /\ ctl["app"].pc \in {"close_set", "close_join"}
  /\ ~ctl["app"].flag
  /\ ctl["app"].pre = 0

\* C7: the steps of a CloseFile called with no pump alive leave the speed,
\* the game client and its rewind ring as they were, and its join finds no
\* thread to wait for.
C7_CloseOnClosed ==
  /\ [](ClosingClosed => pumps = 0)
  /\ [][ ( \/ CloseFile("app") /\ pumps = 0
           \/ ClosingClosed /\ (CloseFileSet("app") \/ CloseFileJoin("app")) )
         => UNCHANGED <<m_playSpeed, m_gameClient, gc>> ]_vars

\* C7 witness: a CloseFile called with no pump alive has returned on a paused
\* player whose game client holds rewind deltas.
C7_Witness ==
  /\ ctl["app"].pc = "closed"
  /\ ctl["app"].pre = 0
  /\ m_playSpeed = PLAYSPEED_PAUSED
  /\ m_gameClient = "client"
  /\ Len(gc.m_rewindBuffer) > 0

\* C8: of back-to-back Pause calls that start at normal speed, the first
\* leaves the player paused, the second at normal speed with the pump not
\* left waiting for an event that is not signaled, the third paused.
C8_PauseToggles ==
  /\ pauseSeq = 2 => m_playSpeed = PLAYSPEED_PAUSED
  /\ pauseSeq = 4 => /\ m_playSpeed = PLAYSPEED_NORMAL
                     /\ pumpPc = "wait" => m_pauseEvent
  /\ pauseSeq = 6 => m_playSpeed = PLAYSPEED_PAUSED

\* C8 witness: the third Pause of such a run has returned while a pump is
\* alive.
C8_Witness == pauseSeq = 6 /\ pumps = 1

\* C9: once every speed operation has returned, the speed is one that some
\* sequential order of the operations that overlapped leads to.
C9_SpeedSerializable ==
  Quiet => m_playSpeed \in {x[1] : x \in lin.cfg}

\* C11: while the game being played reports a serialize size of 0, the pump
\* has not called retro_serialize and the ring holds no delta.
C11_NoCaptureWithoutSaveStates ==
  (pumps = 1 /\ gc.m_bIsPlaying /\ coreSize = 0) =>
    /\ ~(lastCall[1] = "pump" /\ lastCall[2] = "serialize")
    /\ gc.m_rewindBuffer = <<>>

\* C12: while the game being played reports a serialize size of 0,
\* GetTotalTime returns 0.
C12_TotalTimeZeroWithoutSaveStates ==
  (m_gameClient = "client" /\ gc.m_bIsPlaying /\ coreSize = 0) =>
    GetTotalTime = 0

\* C13 as stated: after a successful open of a game with save states,
\* GetTotalTime is 0 while the ring is still empty.
C13_TotalTimeZeroBeforeCapture ==
  (m_gameClient = "client" /\ gc.m_bIsPlaying /\ gc.m_rewindSupported
     /\ coreSize > 0 /\ gc.m_rewindBuffer = <<>>) =>
    GetTotalTime = 0

\* C13: after a successful open of a game with save states, while the ring
\* is still empty GetTime is 0, and GetTotalTime is the time the ceiling
\* m_rewindMaxFrames of the ring stands for, which is not 0.
C13_TimeZeroBeforeCapture ==
  (m_gameClient = "client" /\ gc.m_bIsPlaying /\ gc.m_rewindSupported
     /\ coreSize > 0 /\ gc.m_rewindBuffer = <<>>) =>
    /\ GetTime = 0
    /\ gc.m_rewindMaxFrames = Min(Trunc(RewindSeconds * gc.m_frameRate), ringCap)
    /\ GetTotalTime = (1000 * gc.m_rewindMaxFrames * 10000) \div gc.m_frameRate
    /\ GetTotalTime > 0

\* The pump has run the first frame of a game with save states and is about
\* to capture it: the ring is empty, GetTime is 0 and GetTotalTime is not.
C13_Witness ==
  /\ m_gameClient = "client" /\ gc.m_bIsPlaying /\ gc.m_rewindSupported
  /\ coreSize > 0 /\ gc.m_rewindBuffer = <<>>
  /\ pumps = 1 /\ pumpPc = "append"
  /\ GetTime = 0 /\ GetTotalTime > 0

\* C14: a step of AppendStateDelta in which retro_serialize fails skips the
\* capture: m_lastSaveState and m_rewindBuffer are after it what they were
\* before it.
C14_FailedCaptureSkipped ==
  [][(pumpPc = "append" /\ gc.m_rewindSupported /\ pumpPc' = "unlock") =>
       /\ gc'.m_lastSaveState = gc.m_lastSaveState
       /\ gc'.m_rewindBuffer = gc.m_rewindBuffer]_vars

\* retro_serialize has just failed with deltas in the ring and the core in
\* a state other than the last one captured.
C14_Witness ==
  /\ pumps = 1 /\ pumpPc = "unlock" /\ gc.m_rewindSupported
  /\ lastCall[1] = "pump" /\ lastCall[2] = "serialize"
  /\ Len(gc.m_rewindBuffer) > 0
  /\ coreState # gc.m_lastSaveState

\* C15: RewindFrames(n) returns min(max(n, 0), size of the ring at the
\* call); it calls retro_unserialize once if it returns at least 1 and not
\* at all if it returns 0, and a call that rolls nothing back leaves
\* m_lastSaveState, m_rewindBuffer and the core's state as they were.
C15_RewindResult ==
  /\ [](\A c \in Controllers :
          (ctl[c].pc = "rw_ret" /\ ctl[c].pre >= 0) =>
            /\ ctl[c].rewound = Min(Max(ctl[c].k, 0), ctl[c].pre)
            /\ ctl[c].unserialized = IF ctl[c].rewound >= 1 THEN 1 ELSE 0)
  /\ [][\A c \in Controllers :
          (/\ ctl[c].pc \in {"rw_loop", "rw_unser"}
           /\ ctl'[c].pc \in {"rw_unser", "rw_ret"}
           /\ ctl'[c].pc # ctl[c].pc
           /\ ctl'[c].rewound = 0) =>
            /\ gc'.m_lastSaveState = gc.m_lastSaveState
            /\ gc'.m_rewindBuffer = gc.m_rewindBuffer
            /\ coreState' = coreState]_vars

\* RewindFrames asked for more frames than the ring held is about to return
\* the size the ring had, having called retro_unserialize once.
C15_Witness ==
  \E c \in Controllers :
    /\ ctl[c].pc = "rw_ret" /\ ctl[c].pre > 0 /\ ctl[c].k > ctl[c].pre
    /\ ctl[c].rewound = ctl[c].pre /\ ctl[c].unserialized = 1
    /\ lastCall[1] = c /\ lastCall[2] = "unserialize"
    /\ gc.m_rewindBuffer = <<>>

\* C16: the strategies whose CanLoad the loop has evaluated are, in order,
\* UseHD, UseParentZip, UseVFS, EnterZip when m_bPreferVFS is false and
\* UseVFS, EnterZip, UseHD, UseParentZip when it is true.
C16_StrategyOrder ==
  \A k \in 1 .. Len(resolver.tried) :
    resolver.tried[k] =
      IF g_advancedSettings.m_bPreferVFS
      THEN <<"UseVFS", "EnterZip", "UseHD", "UseParentZip">>[k]
      ELSE <<"UseHD", "UseParentZip", "UseVFS", "EnterZip">>[k]

\* With m_bPreferVFS set the loop has gone through all four strategies,
\* calling retro_load_game for a VFS strategy and for a path strategy.
C16_Witness ==
  /\ g_advancedSettings.m_bPreferVFS
  /\ resolver.pc = "done"
  /\ Len(resolver.tried) = Len(Strategies)
  /\ \E j, k \in 1 .. Len(resolver.calls) :
       /\ j < k
       /\ resolver.calls[j][1] = "EnterZip"
       /\ resolver.calls[k][1] = "UseParentZip"

\* Strategy s can load the file and produce its retro_game_info.
Applicable(s) ==
  CanLoad(s, m_validExtensions, m_bAllowVFS, file) /\ GetGameInfo(s, file)

C18_ParentZipApplicable ==
  resolver.pc \in {"inited", "loop", "done"} =>
    (CanLoad("UseParentZip", m_validExtensions, m_bAllowVFS, file) <=>
       /\ file.inZip
       /\ m_validExtensions = <<>> \/ Found(m_validExtensions, DotZip)
       /\ file.atRoot
       /\ file.zipLocal)

\* The non-empty entries of the core's extension list.
Declared == {info.valid_extensions[k] : k \in 1 .. Len(info.valid_extensions)} \ {<<>>}

\* The extensions the game client accepts: the declared ones, zip dropped
\* unless m_bAllowZip is set.
Accepted == {e \in Declared : g_advancedSettings.m_bAllowZip \/ ~Equals(e, Zip)}

\* C19 as stated: IsExtensionValid holds of a file extension iff the core
\* declared no extension or declared that extension, letter case aside.
C19_DeclaredExtensionsMatch ==
  resolver.pc \in {"inited", "loop", "done"} =>
    \A ext \in FileExts :
      IsExtensionValid(m_validExtensions, ext) <=>
        \/ Declared = {}
        \/ \E e \in Declared : ToLower(ext) = <<".">> \o ToLower(e)

\* C19: IsExtensionValid holds of a file extension iff the accepted set (the
\* declared extensions, zip dropped unless m_bAllowZip is set) is empty or
\* holds that extension, letter case aside.
C19_AcceptedExtensionsMatch ==
  resolver.pc \in {"inited", "loop", "done"} =>
    \A ext \in FileExts :
      IsExtensionValid(m_validExtensions, ext) <=>
        \/ Accepted = {}
        \/ \E e \in Accepted : ToLower(ext) = <<".">> \o ToLower(e)

\* A core declaring "Zip|NES" with m_bAllowZip off: .NES is valid, .zip and
\* .smc are not.
C19_Witness ==
  /\ resolver.pc = "inited"
  /\ ~g_advancedSettings.m_bAllowZip
  /\ info.valid_extensions = <<ZipMixed, NesUpper>>
  /\ m_validExtensions = <<DotNes>>
  /\ IsExtensionValid(m_validExtensions, DotNesUpper)
  /\ ~IsExtensionValid(m_validExtensions, DotZip)
  /\ ~IsExtensionValid(m_validExtensions, DotSmc)

\* C20: a SET_PIXEL_FORMAT query with a format returns true and hands the
\* format to the video sink iff the format is 0RGB1555, XRGB8888 or RGB565;
\* for any other format it returns false, the sink is not called and the
\* pixel format stays what it was.
C20_PixelFormatQuery ==
  (query.cmd = "SET_PIXEL_FORMAT" /\ query.data # "NULL") =>
    IF query.data \in {"0RGB1555", "XRGB8888", "RGB565"}
    THEN /\ query.ret
         /\ query.forwarded = <<query.data>>
         /\ m_pixelFormat = query.data
    ELSE /\ ~query.ret
         /\ query.forwarded = <<>>
         /\ m_pixelFormat = query.before

\* The core had selected RGB565 and has just been refused another format.
C20_Witness ==
  /\ query.cmd = "SET_PIXEL_FORMAT" /\ query.data = "UNKNOWN"
  /\ ~query.ret /\ query.forwarded = <<>>
  /\ query.before = "RGB565" /\ m_pixelFormat = "RGB565"

\* C21: a query other than SHUTDOWN made with a null `data` returns false,
\* writes through no pointer and leaves the pixel format as it was.
C21_NullPayloadRefused ==
  (query.cmd \in Commands \ {"SHUTDOWN"} /\ query.data = "NULL") =>
    /\ ~query.undefined
    /\ ~query.ret
    /\ query.out = "none"
    /\ query.forwarded = <<>>
    /\ m_pixelFormat = query.before

\* C22: a SHUTDOWN query made by the core of a running game returns true and
\* leaves the application with a stop request; the callback leaves the abort
\* flag, the speed, the pump and the game client as they were; and a pump
\* that reaches its loop test after the request runs another frame unless
\* CloseFile has been called or the player is paused.
C22_ShutdownIsRequest ==
  /\ [](query.cmd = "SHUTDOWN" => (query.ret /\ stopRequested))
  /\ [][(query' # query /\ query'.cmd = "SHUTDOWN") =>
          /\ m_bAbortRequest' = m_bAbortRequest
          /\ m_playSpeed' = m_playSpeed
          /\ m_gameClient' = m_gameClient
          /\ pumps' = pumps /\ pumpPc' = pumpPc
          /\ gc' = gc]_vars
  /\ (stopRequested /\ pumps = 1 /\ pumpPc = "loop") ~>
       \/ pumpPc = "append"
       \/ m_bAbortRequest
       \/ m_playSpeed = PLAYSPEED_PAUSED
       \/ pumps # 1

\* The core asked for a shutdown, nobody has called CloseFile, and the pump
\* is back at its loop test at normal speed.
C22_Witness ==
  /\ query.cmd = "SHUTDOWN" /\ query.ret /\ stopRequested
  /\ pumps = 1 /\ pumpPc = "loop"
  /\ ~m_bAbortRequest /\ m_playSpeed = PLAYSPEED_NORMAL
  /\ m_gameClient = "client"

\* C23: the audio sink gets a batch from the audio callback exactly when
\* the batch is not empty and the speed at the callback is 1000: at any other
\* speed nothing is delivered, and back at 1000 batches are delivered again.
C23_AudioOnlyAtNormalSpeed ==
  audio # NoBatch =>
    (audio.sent <=> /\ audio.data # "NULL" /\ audio.frames # 0
                    /\ audio.speed = PLAYSPEED_NORMAL)

C23_Witness ==
  /\ audio.muted /\ audio.sent
  /\ m_playSpeed = PLAYSPEED_NORMAL /\ pumpPc = "append"

\* C24: Seek(false, bLargeStep) asks RewindFrames for 10 * fps frames when
\* the step is large and 1 * fps otherwise (as an int; 600 at 60.0988 fps),
\* and the ring shrinks by the minimum of that count and its length; when the
\* ring holds no more than the count and has dropped nothing, the seek
\* leaves it empty and installs the state the game was opened with.
C24_SeekBackward ==
  /\ SeekFrames(TRUE, 600988) = 600
  /\ \A c \in Controllers :
       (ctl[c].pc = "rw_ret" /\ ctl[c].seek # <<>> /\ ctl[c].pre >= 0) =>
         LET step_seconds == IF ctl[c].seek[1] THEN 10 ELSE 1
             count == (step_seconds * ctl[c].seek[2]) \div 10000
         IN  /\ ctl[c].k = count
             /\ ctl[c].rewound = Min(count, ctl[c].pre)
             /\ RewindFramesAvail = ctl[c].pre - ctl[c].rewound
             /\ (/\ ctl[c].pre <= count /\ ctl[c].pre > 0 /\ ~evicted
                 /\ BootOf(snaps) # NoSnap) =>
                  /\ RewindFramesAvail = 0
                  /\ coreState = BootOf(snaps)

\* A seek that asked for exactly as many frames as the ring held has
\* emptied it and put the core back from a later state to the first one.
C24_Witness ==
  \E c \in Controllers :
    /\ ctl[c].pc = "rw_ret" /\ ctl[c].seek # <<>>
    /\ ctl[c].pre = ctl[c].k /\ ctl[c].rewound = ctl[c].k
    /\ ~evicted /\ gc.m_rewindBuffer = <<>>
    /\ coreState = BootOf(snaps) /\ stateBuffer # coreState

\* C25: when the rewind of SeekPercentage(p) is over, the ring length is
\* min(current, target), with current the ring length SeekPercentage read
\* and target = max * p / 100, also while the pump is capturing frames.
C25_SeekPercentageLength ==
  \A c \in Controllers :
    (ctl[c].pc = "rw_ret" /\ ctl[c].percent # <<>> /\ ctl[c].pre >= 0) =>
      RewindFramesAvail = Min(ctl[c].percent[1], ctl[c].percent[2])

\* C26: for a core that otherwise loads the game, OpenFile returns true
\* exactly when 5.0 <= fps <= 100.0, and when it returns false no pump has
\* been started.
C26_FrameRateInterval ==
  \A c \in Controllers :
    (ctl[c].pc = "opened" /\ ctl[c].opened # <<>> /\ ctl[c].opened[1]) =>
      LET fps == ctl[c].opened[2]
      IN  /\ ctl[c].flag <=>
                (~IsNaN(fps) /\ 5 * 10000 <= fps /\ fps <= 100 * 10000)
          /\ ~ctl[c].flag => (pumps = 0 /\ pumpPc = "none")

\* C27: among the calls made to the core since its library was loaded,
\* retro_init comes after retro_set_environment, and every retro_run comes
\* after each of the five setters (video refresh, audio sample, audio sample
\* batch, input state, input poll).
C27_CallOrder ==
  \A i \in 1 .. Len(abi) :
    /\ abi[i] = "init" =>
         \E j \in 1 .. i - 1 : abi[j] = "set_environment"
    /\ abi[i] = "run" =>
         \A setter \in {"set_video_refresh", "set_audio_sample",
                        "set_audio_sample_batch", "set_input_state",
                        "set_input_poll"} :
           \E j \in 1 .. i - 1 : abi[j] = setter

\* The pump has issued its first retro_run of a game.
C27_Witness ==
  /\ pumps = 1 /\ pumpPc = "append"
  /\ \E i \in 1 .. Len(abi) : abi[i] = "init"
  /\ Len(abi) > 0 /\ abi[Len(abi)] = "run"
  /\ \A i \in 1 .. Len(abi) - 1 : abi[i] # "run"

\* A game is loaded at position i of the record of core calls: a
\* retro_load_game came before, with no retro_unload_game since.
GameLoadedAt(i) ==
  \E j \in 1 .. i - 1 :
    /\ abi[j] = "load_game"
    /\ \A k \in j + 1 .. i - 1 : abi[k] # "unload_game"

\* C28: in every sequence of Init, OpenFile, RunFrame, RewindFrames,
\* CloseFile and DeInit, retro_serialize and retro_unserialize are called
\* only while a game is loaded: after a retro_load_game that succeeded and
\* before the retro_unload_game that follows it.
C28_SerializeWhileLoaded ==
  \A i \in 1 .. Len(abi) :
    abi[i] \in {"serialize", "unserialize"} => GameLoadedAt(i)

\* C29: in every sequence of Init, OpenFile, CloseFile and DeInit, per load
\* of the library retro_unload_game never comes after retro_deinit nor
\* either of them after the unloading of the library, retro_deinit and the
\* unloading happen at most once, and two calls of retro_unload_game have
\* a retro_load_game between them.
C29_TeardownOnce ==
  \A i \in 1 .. Len(abi) : \A j \in i + 1 .. Len(abi) :
    /\ ~(abi[i] = "deinit" /\ abi[j] = "unload_game")
    /\ ~(abi[i] = "Unload" /\ abi[j] \in {"unload_game", "deinit"})
    /\ ~(abi[i] = "deinit" /\ abi[j] = "deinit")
    /\ ~(abi[i] = "Unload" /\ abi[j] = "Unload")
    /\ (abi[i] = "unload_game" /\ abi[j] = "unload_game") =>
         \E k \in i + 1 .. j - 1 : abi[k] = "load_game"

\* C30: when the pump has exited, every sink it started has been stopped,
\* and the sinks it started were stopped in the reverse of the order in
\* which they were started.
C30_SinksReverseOrder ==
  sinks.stopped # <<>> =>
    LET started == sinks.started
        Started(x) == \E i \in 1 .. Len(started) : started[i] = x
        stopped == SelectSeq(sinks.stopped, Started)
    IN  /\ Len(stopped) = Len(started)
        /\ \A i \in 1 .. Len(started) :
             stopped[i] = started[Len(started) + 1 - i]

\* The pump is past retro_run and has not pushed this frame's capture.
PumpBeforePush == pumpPc \in {"append", "push"}

\* The pump has pushed this frame's capture and is still inside
\* AppendStateDelta.
PumpAfterPush == pumpPc \in {"overwrite", "evict"}

\* C31 as stated: from retro_run to the capture the pump holds the lock and
\* no controller is inside RewindFrames, and the captures the ring holds
\* since the last rewind or open are, oldest to newest, those of the most
\* recent runs, one for each run: before the push of a frame the i-th
\* newest capture followed the run i frames before this frame's, after the
\* push and between frames the i-th newest followed the i-th most recent run.
C31_RingMatchesRuns ==
  LET made == frameLog.made
      n == Len(made)
  IN  /\ PumpInRunFrame =>
            /\ m_critSection = "pump"
            /\ \A c \in Controllers : ~InRewindFrames(c)
      /\ \A i \in 1 .. n :
            made[i] = IF PumpBeforePush THEN n - i + 1 ELSE n - i

\* C31 amended: from retro_run to the capture the pump holds the lock and no
\* controller is inside RewindFrames; every capture pushed follows the run
\* of its own frame, which came after the runs of all captures in the ring;
\* and the captures made since the last rewind or open are in the order of
\* the runs they followed (a run whose capture failed has none).
C31_RingOrderedByRuns ==
  LET made == frameLog.made
      n == Len(made)
  IN  /\ PumpInRunFrame =>
            /\ m_critSection = "pump"
            /\ \A c \in Controllers : ~InRewindFrames(c)
      /\ PumpBeforePush => \A i \in 1 .. n : made[i] >= 1
      /\ PumpAfterPush => n > 0 /\ made[n] = 0
      /\ \A i \in 1 .. n : \A j \in i + 1 .. n :
            made[i] > made[j] \/ made[i] = MaxAge

\* C31 witness: the ring holds two captures made since the last rewind or
\* open with a run whose capture failed between them, and the pump has just
\* pushed the newer one.
C31_Witness ==
  /\ pumpPc = "evict"
  /\ Len(frameLog.made) = 2
  /\ Len(gc.m_rewindBuffer) = 2
  /\ frameLog.made[2] = 0
  /\ frameLog.made[1] = 2

\* A pump is alive, no call of a controller is in progress, no close has
\* been asked for, and the last Pause or ToFFRW left the speed positive.
LeftRunning ==
  /\ pumps = 1
  /\ \A c \in Controllers : ctl[c].pc = "idle"
  /\ ~m_bAbortRequest
  /\ m_playSpeed > PLAYSPEED_PAUSED

\* C32: under fair scheduling of the pump, whenever the calls made so far
\* have left the speed positive with no close pending, the pump gets to run
\* another frame (or a further call changes this first).
C32_PositiveSpeedRuns ==
  LeftRunning ~> (pumpPc = "frame" \/ ~LeftRunning)

\* C33: when OpenFile returns true (no Pause or ToFFRW is in progress: the
\* thread that opens is the one that pauses), the speed is PLAYSPEED_NORMAL,
\* so the pump runs frames without a further call.
C33_OpenEntersRunning ==
  (ctl["app"].pc = "opened" /\ ctl["app"].flag) =>
    m_playSpeed = PLAYSPEED_NORMAL

\* C34: while the speed stays PLAYSPEED_PAUSED after the assignment that
\* paused it, the pump calls retro_run at most once (the frame it had
\* already decided to run), whatever m_pauseEvent was left at.
C34_PausedRunsAtMostOnce ==
  m_playSpeed = PLAYSPEED_PAUSED => frameLog.idle <= 1

\* C34 witness: Pause has returned leaving the speed at 0, the pump has run
\* the one frame it was about to run, and now waits on an event that is not
\* signaled.
C34_Witness ==
  /\ m_playSpeed = PLAYSPEED_PAUSED
  /\ ctl["ui"].pc = "idle"
  /\ frameLog.idle = 1
  /\ pumpPc = "wait"
  /\ ~m_pauseEvent

\* C35: the speed the pump divides by, when it advances its deadline after
\* a frame, is positive.
C35_DivisorPositive ==
  \A speed \in frameLog.divisor : speed > 0

\* C36: with m_bAllowZip off, after SetExtensions of a list that declares at
\* least one extension, IsExtensionValid(".zip") is false.
C36_ZipRejectedUnlessAllowed ==
  (/\ resolver.pc = "inited"
   /\ ~g_advancedSettings.m_bAllowZip
   /\ Declared # {}) =>
    ~IsExtensionValid(m_validExtensions, DotZip)

\* round(x / 10000) of a non-negative x: halves go up.
Round(x) == (2 * x + 10000) \div 20000

\* C37: while a game with save states is loaded, RewindFramesAvailMax is
\* 60 * fps rounded to the nearest integer.
C37_CeilingIsRounded ==
  (gc.m_bIsPlaying /\ gc.m_rewindSupported) =>
    RewindFramesAvailMax = Round(RewindSeconds * gc.m_frameRate)

====
